---- MODULE Spec2Model ----
(***************************************************************************)
(* riot-composables: the reactivity engine attached to one host component. *)
(*                                                                         *)
(* The model follows src/core/reactive.ts, computed.ts, effect.ts,         *)
(* watch.ts and the lifecycle hooks of src/core/plugin.ts.  Every handler  *)
(* is a function from the component's world (a record of its mutable       *)
(* fields) to the world after the handler returned; an action applies one  *)
(* handler and commits the result.  User callbacks (effect bodies, getters)*)
(* are the inputs: what an invocation does is drawn per action.            *)
(***************************************************************************)
EXTENDS Integers, Sequences, FiniteSets, TLC

\* ------------------------------------------------------------------ bounds
MaxEffects  == 1   \* createEffect calls per instance
MaxWatchers == 1   \* createWatch calls per instance
MaxComputed == 1   \* createComputed calls per instance
MaxRuns     == 2   \* invocations of one effect body
MaxUpdates  == 1   \* calls of component.update() beside a lifecycle
MaxWrites   == 2   \* calls of component.update() on the proxy store alone
MaxMounts   == 1   \* firings of the mount hook
MaxReads    == 2   \* reads of one computed cell between two dirty-markings
MaxChain    == 2   \* createEffect calls per instance, hook specification
MaxPassWatchers == 2   \* createWatch calls per instance, pass specification
MaxDepth    == 3   \* pre-update passes nested inside one write
MaxInstalls == 5   \* calls of riot's install()
MaxCells    == 2   \* entries of the objects given to createComputedObject
MaxPairs    == 2   \* pairs given to createWatchMultiple, over all its calls
MaxWarnings == 6   \* calls of console.warn by the plugin module

\* ------------------------------------------------------------------ values
Props == {"a", "b"}

\* JavaScript values a property can hold, one token per SameValue class.
Values == {"0", "-0", "1", "NaN", "undefined"}

\* Marks a key the raw object does not have (not a value).
Absent == "absent"

\* ===: NaN differs from itself, +0 equals -0.
StrictEquals(x, y) ==
    IF x = "NaN" \/ y = "NaN" THEN FALSE
    ELSE x = y \/ {x, y} = {"0", "-0"}

\* Object.is: SameValue.  Each token of Values is its own class.
ObjectIs(x, y) == x = y

\* Reflect.get(obj, prop): a missing key reads as undefined.
Get(obj, p) == IF obj[p] = Absent THEN "undefined" ELSE obj[p]

\* Reflect.has(obj, prop)
Has(obj, p) == obj[p] # Absent

\* The raw objects callers hold: the plain object o1 references the array o2
\* from two properties; o2 holds primitives only; f1 is a function.
Objs == {"o1", "o2", "f1"}
Keys == {"x", "y"}
Child ==
    [o1 |-> [x |-> "o2", y |-> "o2"],
     o2 |-> [x |-> "none", y |-> "none"],
     f1 |-> [x |-> "none", y |-> "none"]]
ObjKind == [o1 |-> "object", o2 |-> "array", f1 |-> "function"]

\* The host instances that share the module.
Components == {"A", "B"}

\* The values the proxy store is asked about: a raw object, a proxy (by its
\* creation number), an object whose prototype is a proxy, or a primitive.
RawOf(o) == [kind |-> ObjKind[o], obj |-> o, px |-> 0]
ProxyOf(k) == [kind |-> "proxy", obj |-> "", px |-> k]
HeirOf(k) == [kind |-> "heir", obj |-> "", px |-> k]
Prim(t) == [kind |-> t, obj |-> "", px |-> 0]

\* --------------------------------------------------------------- callbacks
\* What one invocation of an effect body does: return a fresh function,
\* return a non-function, or raise.
EffectOutcomes == {"fn", "void", "throw"}

\* The dependency getters a caller can pass to createEffect ("none": the
\* argument is omitted).
DepsGetters == {"none", "empty", "a", "len"}

\* depsGetter(): the array the getter builds from the reactive state.
EvalDeps(g, obj) ==
    CASE g = "empty" -> << >>
      [] g = "a"     -> << Get(obj, "a") >>
      [] g = "len"   -> IF Get(obj, "b") = "1"
                        THEN << Get(obj, "a"), Get(obj, "a") >>
                        ELSE << Get(obj, "a") >>
      [] OTHER       -> << >>

\* One entry of the trace of the handler that ran last.
Ev(e, i, n, nv, ov) == [ev |-> e, i |-> i, n |-> n, nv |-> nv, ov |-> ov]

\* The operation an action performed, with its arguments and its result.
Op(name, p, v, i) == [name |-> name, prop |-> p, val |-> v, idx |-> i]

VARIABLES
    raw,          \* the raw object behind the reactive proxy: Props -> value
    proxied,      \* rawToReactive has an entry for the raw object
    states,       \* __composables__.states (ids of the wrapped raw objects)
    updateCalls,  \* calls of component.update() so far
    computed,     \* __composables__.computed: cells in insertion order
    effectData,   \* every EffectData record created, by effect id
    effects,      \* __composables__.effects: effect ids in insertion order
    watchers,     \* __composables__.watchers: entries in insertion order
    cleanups,     \* __composables__.cleanups: effect id each entry closes over
    onMounted,    \* component.onMounted: the wrappers, innermost first
    phase,        \* lifecycle of the host instance
    mountCount,   \* firings of the mount hook so far
    effectRuns,   \* invocations of each effect body so far
    cleanupRuns,  \* cleanupRuns[e][n]: calls of the function returned by run n
    entryRuns,    \* calls of each entry ever pushed on the cleanup list
    regMount,     \* mountCount when each effect was registered
    watchRegs,    \* createWatch calls that added an entry
    watchCalls,   \* what the seeding getter did in each createWatch call
    epoch,        \* per computed cell, since it was last marked dirty
    raised,       \* the handler that ran last threw to its caller
    tooDeep,      \* the handler that ran last nested passes beyond MaxDepth
    rawToReactive,\* module WeakMap: raw object -> its proxy (0: no entry)
    reactiveToRaw,\* module WeakMap: proxy -> the raw object it wraps
    proxies,      \* every Proxy created: its target and the component its
                  \* traps close over
    statesOf,     \* __composables__.states of each host instance
    updatesOf,    \* calls of update() of each host instance
    handed,       \* every proxy handed to a caller, with the call that did
    ret,          \* the call on the proxy store that ran last, and its result
    isInstalled,  \* plugin.ts: the module's installed flag
    pluginRef,    \* plugin.ts: the plugin handed to riot, or "null"
    installs,     \* calls of riot's install() so far
    uninstalls,   \* calls of riot's uninstall() so far
    warnings,     \* calls of console.warn by the plugin module so far
    log,          \* trace of the handler that ran last
    op            \* the operation that ran last

\* The proxy store as the module and several host instances see it.
heapVars == << rawToReactive, reactiveToRaw, proxies, statesOf, updatesOf,
              handed, ret >>

\* The module state of plugin.ts and what it did to riot.
pluginVars == << isInstalled, pluginRef, installs, uninstalls, warnings >>

vars == << raw, proxied, states, updateCalls, computed, effectData, effects,
           watchers, cleanups, onMounted, phase, mountCount, effectRuns,
           cleanupRuns, entryRuns, regMount, watchRegs, watchCalls, epoch,
           raised, tooDeep, heapVars, pluginVars, log, op >>

\* The fields a handler can change, as one record.
World ==
    [ raw |-> raw, states |-> states, updateCalls |-> updateCalls,
      computed |-> computed, effectData |-> effectData, effects |-> effects,
      watchers |-> watchers, cleanups |-> cleanups,
      effectRuns |-> effectRuns, cleanupRuns |-> cleanupRuns,
      entryRuns |-> entryRuns, epoch |-> epoch, raised |-> FALSE,
      tooDeep |-> FALSE, log |-> << >> ]

Commit(w) ==
    /\ raw' = w.raw
    /\ states' = w.states
    /\ updateCalls' = w.updateCalls
    /\ computed' = w.computed
    /\ effectData' = w.effectData
    /\ effects' = w.effects
    /\ watchers' = w.watchers
    /\ cleanups' = w.cleanups
    /\ effectRuns' = w.effectRuns
    /\ cleanupRuns' = w.cleanupRuns
    /\ entryRuns' = w.entryRuns
    /\ epoch' = w.epoch
    /\ raised' = w.raised
    /\ tooDeep' = w.tooDeep
    /\ log' = w.log
    /\ UNCHANGED << heapVars, pluginVars >>

Emit(w, e) == [w EXCEPT !.log = Append(@, e)]

\* try { ... } catch (error) { console.error(...) }: an error pending at the
\* end of the block is reported and goes no further.
Catch(w, i, what) ==
    IF w.raised
    THEN Emit([w EXCEPT !.raised = FALSE], Ev("error", i, 0, what, ""))
    ELSE w

NoObject == [p \in Props |-> Absent]

Init ==
    /\ raw = NoObject
    /\ proxied = FALSE
    /\ states = << >>
    /\ updateCalls = 0
    /\ computed = << >>
    /\ effectData = << >>
    /\ effects = << >>
    /\ watchers = << >>
    /\ cleanups = << >>
    /\ onMounted = << >>
    /\ phase = "created"
    /\ mountCount = 0
    /\ effectRuns = << >>
    /\ cleanupRuns = << >>
    /\ entryRuns = << >>
    /\ regMount = << >>
    /\ watchRegs = 0
    /\ watchCalls = << >>
    /\ epoch = << >>
    /\ raised = FALSE
    /\ tooDeep = FALSE
    /\ rawToReactive = [o \in Objs |-> 0]
    /\ reactiveToRaw = << >>
    /\ proxies = << >>
    /\ statesOf = [c \in Components |-> << >>]
    /\ updatesOf = [c \in Components |-> 0]
    /\ handed = {}
    /\ isInstalled = FALSE
    /\ pluginRef = "null"
    /\ installs = 0
    /\ uninstalls = 0
    /\ warnings = 0
    /\ ret = [name |-> "init", c |-> "", arg |-> Prim("undefined"), key |-> "",
              out |-> Prim("undefined"), flag |-> FALSE]
    /\ log = << >>
    /\ op = Op("init", "", "", 0)

Alive == phase \in {"created", "mounted"}

\* =========================================================== reactive.ts
\* component.update(), the call itself: the host's re-render request, which
\* may raise and then leaves its error pending.
CallUpdate(w, throws) ==
    [Emit([w EXCEPT !.updateCalls = @ + 1],
          Ev("update", 0, 0, IF throws THEN "throw" ELSE "ok", ""))
       EXCEPT !.raised = throws]

\* component.update() called outside any try block.
HostUpdateUncaught(w, throws) == CallUpdate(w, throws)

\* The try block around component.update().
HostUpdate(w, throws) == Catch(CallUpdate(w, throws), 0, "update")

\* The set trap without the notification.
SetSilently(w, p, v, throws) ==
    LET oldValue == Get(w.raw, p)
    IN  IF ObjectIs(oldValue, v) THEN w ELSE [w EXCEPT !.raw[p] = v]

\* The set trap of the proxy.
ProxySetW(w, p, v, throws) ==
    LET oldValue == Get(w.raw, p)
    IN  IF ObjectIs(oldValue, v)
        THEN w
        ELSE HostUpdate([w EXCEPT !.raw[p] = v], throws)

\* The deleteProperty trap calling update() whether or not the key existed.
ProxyDeleteAlways(w, p, throws, configurable) ==
    HostUpdate(IF configurable THEN [w EXCEPT !.raw[p] = Absent] ELSE w,
               throws)

\* The deleteProperty trap of the proxy.  Reflect.deleteProperty answers
\* false, and removes nothing, for an own property that is not configurable.
ProxyDeleteW(w, p, throws, configurable) ==
    LET hadKey == Has(w.raw, p)
        result == ~hadKey \/ configurable
        w1     == IF result THEN [w EXCEPT !.raw[p] = Absent] ELSE w
    IN  IF hadKey /\ result THEN HostUpdate(w1, throws) ELSE w1

\* createReactive(component, initialState)
CreateReactive(init) ==
    /\ Alive
    /\ IF proxied
       THEN UNCHANGED << raw, proxied, states >>
       ELSE /\ raw' = init
            /\ proxied' = TRUE
            /\ states' = Append(states, "o1")
    /\ raised' = FALSE
    /\ UNCHANGED << tooDeep, heapVars, pluginVars >>
    /\ log' = << >>
    /\ op' = Op("createReactive", "", "", 0)
    /\ UNCHANGED << updateCalls, computed, effectData, effects, watchers,
                    cleanups, onMounted, phase, mountCount, effectRuns,
                    cleanupRuns, entryRuns, regMount, watchRegs, watchCalls,
                    epoch >>

\* proxy[p] = v; throws: this call of component.update() raises.
ProxySet(p, v, throws) ==
    /\ Alive
    /\ proxied
    /\ Commit(ProxySetW(World, p, v, throws))
    /\ op' = Op("set", p, v, 0)
    /\ UNCHANGED << proxied, onMounted, phase, mountCount, regMount,
                    watchRegs,
                    watchCalls >>

\* delete proxy[p]; throws: this call of component.update() raises.
ProxyDelete(p, throws, configurable) ==
    /\ Alive
    /\ proxied
    /\ Commit(ProxyDeleteW(World, p, throws, configurable))
    /\ op' = Op("delete", p, IF configurable THEN "" ELSE "fixed", 0)
    /\ UNCHANGED << proxied, onMounted, phase, mountCount, regMount,
                    watchRegs,
                    watchCalls >>

\* =========================================================== computed.ts
\* A fresh record of what happened to a cell since it was marked dirty.
NewEpoch(src) ==
    [src |-> src, reads |-> 0, calls |-> 0, raised |-> FALSE,
     val |-> "undefined"]

\* createComputed(component, getter): the getter reads property p.
CreateComputed(p) ==
    /\ Alive
    /\ proxied
    /\ Len(computed) < MaxComputed
    /\ computed' = Append(computed,
                          [getter |-> p, cache |-> "undefined", dirty |-> TRUE])
    /\ epoch' = Append(epoch, NewEpoch("create"))
    /\ raised' = FALSE
    /\ UNCHANGED << tooDeep, heapVars, pluginVars >>
    /\ log' = << >>
    /\ op' = Op("createComputed", p, "", Len(computed) + 1)
    /\ UNCHANGED << raw, proxied, states, updateCalls, effectData, effects,
                    watchers, cleanups, onMounted, phase, mountCount,
                    effectRuns, cleanupRuns, entryRuns, regMount, watchRegs,
                    watchCalls >>

\* createComputed(component, getter) as createComputedObject calls it: the
\* cell is added and its number stands for the accessor returned.
CreateComputedW(w, p) ==
    [w EXCEPT !.computed = Append(@, [getter |-> p, cache |-> "undefined",
                                      dirty |-> TRUE]),
              !.epoch = Append(@, NewEpoch("create"))]

\* The loop of createComputedObject with one cell shared by all the keys.
RECURSIVE GroupSharingCell(_, _, _, _)
GroupSharingCell(w, entries, k, result) ==
    IF k > Len(entries)
    THEN [w |-> w, result |-> result]
    ELSE LET w1 == IF k = 1 THEN CreateComputedW(w, entries[k].getter) ELSE w
         IN  GroupSharingCell(w1, entries, k + 1,
                Append(result, [key |-> entries[k].key,
                                cell |-> Len(w1.computed)]))

\* The loop of createComputedObject over Object.entries(computedGetters):
\* result[key] = createComputed(component, getter).
RECURSIVE ComputedObjectLoop(_, _, _, _)
ComputedObjectLoop(w, entries, k, result) ==
    IF k > Len(entries)
    THEN [w |-> w, result |-> result]
    ELSE LET w1 == CreateComputedW(w, entries[k].getter)
         IN  ComputedObjectLoop(w1, entries, k + 1,
                Append(result, [key |-> entries[k].key,
                                cell |-> Len(w1.computed)]))

\* createComputedObject(component, computedGetters): entries are the keys
\* and getters of the object, result the accessors returned, by key.
CreateComputedObject(entries) ==
    LET made == ComputedObjectLoop(World, entries, 1, << >>)
    IN  /\ Alive
        /\ proxied
        /\ Commit(made.w)
        /\ op' = Op("createComputedObject", entries, made.result, 0)
        /\ UNCHANGED << proxied, onMounted, phase, mountCount, regMount,
                        watchRegs, watchCalls >>

\* getter() inside computedRef.value: the call counted and traced, with the
\* value it returned or the error it raised.
CallGetter(w, i, throws) ==
    Emit([w EXCEPT !.epoch[i].calls = @ + 1],
         Ev("getter", i, 0,
            IF throws THEN "throw" ELSE Get(w.raw, w.computed[i].getter), ""))

\* The catch branch of computedRef.value: report the error and raise it again.
Rethrow(w, i) ==
    [Emit(w, Ev("error", i, 0, "computed getter", ""))
       EXCEPT !.epoch[i].raised = TRUE, !.raised = TRUE]

\* The getter of computedRef.value, never clearing the dirty flag.
ReadNoCacheW(w, i, throws) ==
    LET c  == w.computed[i]
        w1 == CallGetter(w, i, throws)
    IN  IF throws
        THEN [Rethrow(w1, i) EXCEPT !.epoch[i].reads = @ + 1]
        ELSE [w1 EXCEPT !.computed[i].cache = Get(w.raw, c.getter),
                        !.epoch[i].val = Get(w.raw, c.getter),
                        !.epoch[i].reads = @ + 1]

\* The getter of computedRef.value with a catch branch that reports the error
\* and falls through to the return.
ReadSwallowW(w, i, throws) ==
    LET c  == w.computed[i]
        w1 == CallGetter(w, i, throws)
        w2 == IF ~c.dirty THEN w
              ELSE IF throws
                   THEN [Emit(w1, Ev("error", i, 0, "computed getter", ""))
                           EXCEPT !.epoch[i].raised = TRUE]
                   ELSE [w1 EXCEPT !.computed[i].cache = Get(w.raw, c.getter),
                                   !.computed[i].dirty = FALSE,
                                   !.epoch[i].val = Get(w.raw, c.getter)]
    IN  [w2 EXCEPT !.epoch[i].reads = @ + 1]

\* The getter of computedRef.value: the world after the read.
ReadComputedW(w, i, throws) ==
    LET c  == w.computed[i]
        w1 == CallGetter(w, i, throws)
        w2 == IF ~c.dirty THEN w
              ELSE IF throws
                   THEN Rethrow(w1, i)
                   ELSE [w1 EXCEPT !.computed[i].cache = Get(w.raw, c.getter),
                                   !.computed[i].dirty = FALSE,
                                   !.epoch[i].val = Get(w.raw, c.getter)]
    IN  [w2 EXCEPT !.epoch[i].reads = @ + 1]

\* What the read hands to the reader: the cache, or the getter's error.
ReadResult(w, i, throws) ==
    LET w2 == ReadComputedW(w, i, throws)
    IN  IF w2.raised THEN "raise" ELSE w2.computed[i].cache

\* computedRef.value
ReadComputed(i, throws) ==
    /\ Alive
    /\ i \in DOMAIN computed
    /\ epoch[i].reads < MaxReads
    /\ Commit(ReadComputedW(World, i, throws))
    /\ op' = Op("read", computed[i].getter, ReadResult(World, i, throws), i)
    /\ UNCHANGED << proxied, onMounted, phase, mountCount, regMount,
                    watchRegs,
                    watchCalls >>

\* ============================================================== watch.ts
\* createWatch adding its entry whatever the seeding call of the getter did.
CreateWatchAlways(p, throws) ==
    /\ Alive
    /\ proxied
    /\ LET id == Len(watchCalls) + 1
           v  == IF throws THEN "undefined" ELSE Get(raw, p)
       IN  /\ watchCalls' = Append(watchCalls, IF throws THEN "throw" ELSE "ok")
           /\ watchers' = Append(watchers,
                                 [getter |-> p, oldValue |-> v, id |-> id])
           /\ watchRegs' = watchRegs + 1
           /\ log' = << Ev("wget", id, 0, IF throws THEN "throw" ELSE v, "") >>
           /\ op' = Op("createWatch", p, "", id)
    /\ raised' = FALSE
    /\ UNCHANGED << tooDeep, heapVars, pluginVars >>
    /\ UNCHANGED << raw, proxied, states, updateCalls, computed, effectData,
                    effects, cleanups, onMounted, phase, mountCount,
                    effectRuns, cleanupRuns, entryRuns, regMount, epoch >>

\* createWatch(component, getter, callback): the getter reads property p;
\* throws: the seeding call of the getter raises.
CreateWatch(p, throws) ==
    /\ Alive
    /\ proxied
    /\ LET id == Len(watchCalls) + 1
       IN  /\ watchCalls' = Append(watchCalls, IF throws THEN "throw" ELSE "ok")
           /\ IF throws
              THEN /\ log' = << Ev("wget", id, 0, "throw", ""),
                                Ev("error", id, 0, "watch getter", "") >>
                   /\ UNCHANGED << watchers, watchRegs >>
              ELSE /\ log' = << Ev("wget", id, 0, Get(raw, p), "") >>
                   /\ watchers' = Append(watchers,
                          [getter |-> p, oldValue |-> Get(raw, p), id |-> id])
                   /\ watchRegs' = watchRegs + 1
           /\ op' = Op("createWatch", p, "", id)
    /\ raised' = FALSE
    /\ UNCHANGED << tooDeep, heapVars, pluginVars >>
    /\ UNCHANGED << raw, proxied, states, updateCalls, computed, effectData,
                    effects, cleanups, onMounted, phase, mountCount,
                    effectRuns, cleanupRuns, entryRuns, regMount, epoch >>

\* createWatch(component, getter, callback) as createWatchMultiple calls it,
\* on the watcher collection and the trace of the loop.
CreateWatchW(s, pair) ==
    LET id == Len(s.watchCalls) + 1
    IN  IF pair.throws
        THEN [s EXCEPT !.watchCalls = Append(@, "throw"),
                       !.log = @ \o << Ev("wget", id, 0, "throw", ""),
                                       Ev("error", id, 0, "watch getter", "") >>]
        ELSE [s EXCEPT !.watchCalls = Append(@, "ok"),
                       !.watchers = Append(@, [getter |-> pair.getter,
                                               oldValue |-> Get(raw, pair.getter),
                                               id |-> id]),
                       !.watchRegs = @ + 1,
                       !.log = Append(@, Ev("wget", id, 0,
                                            Get(raw, pair.getter), ""))]

\* The loop of createWatchMultiple ending at the first getter that raises.
RECURSIVE WatchLoopStopOnError(_, _, _)
WatchLoopStopOnError(s, pairs, k) ==
    IF k > Len(pairs) \/ (k > 1 /\ pairs[k - 1].throws)
    THEN s
    ELSE WatchLoopStopOnError(CreateWatchW(s, pairs[k]), pairs, k + 1)

\* The loop of createWatchMultiple: for (const [getter, callback] of watchers)
RECURSIVE WatchMultipleLoop(_, _, _)
WatchMultipleLoop(s, pairs, k) ==
    IF k > Len(pairs)
    THEN s
    ELSE WatchMultipleLoop(CreateWatchW(s, pairs[k]), pairs, k + 1)

\* createWatchMultiple(component, watchers): each pair is the property its
\* getter reads and whether the getter raises in the seeding call.
CreateWatchMultiple(pairs) ==
    LET s == WatchMultipleLoop([watchers |-> watchers, watchCalls |-> watchCalls,
                                watchRegs |-> watchRegs, log |-> << >>],
                               pairs, 1)
    IN  /\ Alive
        /\ proxied
        /\ watchers' = s.watchers
        /\ watchCalls' = s.watchCalls
        /\ watchRegs' = s.watchRegs
        /\ log' = s.log
        /\ op' = Op("createWatchMultiple", pairs, "", Len(watchCalls))
        /\ raised' = FALSE
        /\ UNCHANGED << tooDeep, heapVars, pluginVars >>
        /\ UNCHANGED << raw, proxied, states, updateCalls, computed,
                        effectData, effects, cleanups, onMounted, phase,
                        mountCount, effectRuns, cleanupRuns, entryRuns,
                        regMount, epoch >>

\* ============================================================= effect.ts
\* effectData.cleanup(), the call itself: a cleanup that raises leaves its
\* error pending.
CallCleanup(w, e) ==
    LET c == w.effectData[e].cleanup
    IN  IF c # 0
        THEN [Emit([w EXCEPT !.cleanupRuns[e][c] = @ + 1],
                   Ev("cleanup", e, c, "", ""))
                EXCEPT !.raised = w.effectData[e].raises]
        ELSE w

\* effect(), the call itself, and what it does with the value returned: a
\* function is kept as the cleanup, an error is left pending.
CallEffect(w, e, outcome) ==
    LET n  == w.effectRuns[e] + 1
        does == IF w.effectData[e].effect = "returnsCleanup"
                THEN "fn" ELSE outcome
        w1 == Emit([w EXCEPT !.effectRuns[e] = n],
                   Ev("effect", e, n, does, ""))
    IN  CASE does \in {"fn", "fnThrows"} ->
                [w1 EXCEPT !.effectData[e].cleanup = n,
                           !.effectData[e].raises = (does = "fnThrows")]
          [] does = "throw" -> [w1 EXCEPT !.raised = TRUE]
          [] OTHER -> w1

\* The cleanup branch of runEffect: call the stored cleanup, if any.
RunCleanup(w, e) == Catch(CallCleanup(w, e), e, "effect cleanup")

\* The effect branch of runEffect without its try block.
InvokeEffectUncaught(w, e, outcome) == CallEffect(w, e, outcome)

\* The effect branch of runEffect: call the body, keep a returned function.
InvokeEffect(w, e, outcome) == Catch(CallEffect(w, e, outcome), e, "effect")

\* runEffect taking a new dependency snapshot before it runs the effect.
RunEffectRefreshing(w, e, outcome) ==
    InvokeEffect(RunCleanup([w EXCEPT !.effectData[e].deps =
                                IF w.effectData[e].depsGetter = "none" THEN @
                                ELSE EvalDeps(w.effectData[e].depsGetter, w.raw)],
                            e),
                 e, outcome)

\* runEffect of createEffect
RunEffect(w, e, outcome) == InvokeEffect(RunCleanup(w, e), e, outcome)

\* createEffect(component, effect, deps): body is what the effect is, a
\* function of the caller ("user") or () => cleanup ("returnsCleanup").
RegisterEffect(g, body) ==
    /\ Alive
    /\ g \notin {"none", "empty"} => proxied
    /\ LET id == Len(effectData) + 1
       IN  /\ effectData' = Append(effectData,
                 [effect      |-> body,
                  depsGetter  |-> g,
                  depsDefined |-> g # "none",
                  deps        |-> IF g # "none" THEN EvalDeps(g, raw) ELSE << >>,
                  cleanup     |-> 0,
                  raises      |-> FALSE])
           /\ effects' = Append(effects, id)
           /\ onMounted' = Append(onMounted, id)
           /\ cleanups' = Append(cleanups, id)
           /\ op' = Op("createEffect", g, body, id)
    /\ effectRuns' = Append(effectRuns, 0)
    /\ cleanupRuns' = Append(cleanupRuns, [n \in 1..MaxRuns |-> 0])
    /\ entryRuns' = Append(entryRuns, 0)
    /\ regMount' = Append(regMount, mountCount)
    /\ raised' = FALSE
    /\ UNCHANGED << tooDeep, heapVars, pluginVars >>
    /\ log' = << >>
    /\ UNCHANGED << raw, proxied, states, updateCalls, computed, watchers,
                    phase, mountCount, watchRegs, watchCalls, epoch >>

CreateEffect(g) == RegisterEffect(g, "user")

\* createEffect(component, effect, deps) with a deps that raises: deps() is
\* called while effectData is built, in no try block, so the error leaves
\* createEffect before anything is stored.
CreateEffectDepsThrow(g) ==
    /\ Alive
    /\ proxied
    /\ raised' = TRUE
    /\ log' = << Ev("deps", Len(effectData) + 1, 0, "throw", "") >>
    /\ op' = Op("createEffect", g, "depsThrow", 0)
    /\ UNCHANGED << tooDeep, heapVars, pluginVars >>
    /\ UNCHANGED << raw, proxied, states, updateCalls, computed, effectData,
                    effects, watchers, cleanups, onMounted, phase, mountCount,
                    effectRuns, cleanupRuns, entryRuns, regMount, watchRegs,
                    watchCalls, epoch >>

\* useMount(component, effect): useEffect(component, effect, () => [])
UseMount == RegisterEffect("empty", "user")

\* useUnmount(component, cleanup):
\* useEffect(component, () => cleanup, () => [])
UseUnmount == RegisterEffect("empty", "returnsCleanup")

\* The hook the host component defined itself, called last by the wrapper.
OriginalHook(w, name) ==
    IF w.raised THEN w ELSE Emit(w, Ev("hook", 0, 0, name, ""))

\* component.onMounted as createEffect leaves it: wrapper k runs its effect,
\* then the hook it replaced.
RECURSIVE RunMountChain(_, _, _)
RunMountChain(w, k, out) ==
    IF w.raised
    THEN w
    ELSE IF k = 0
         THEN OriginalHook(w, "onMounted")
         ELSE RunMountChain(RunEffect(w, onMounted[k], out[onMounted[k]]),
                            k - 1, out)

\* What each effect body does if it is invoked in this step.
Outcomes == [DOMAIN effectData -> EffectOutcomes]

CanRunEffects == \A e \in DOMAIN effectData : effectRuns[e] < MaxRuns

\* The host fires the mount hook, for the first time or again.
FireMounted(out) ==
    /\ Alive
    /\ CanRunEffects
    /\ Commit(RunMountChain(World, Len(onMounted), out))
    /\ phase' = "mounted"
    /\ mountCount' = mountCount + 1
    /\ op' = Op("mounted", "", "", 0)
    /\ UNCHANGED << proxied, onMounted, regMount, watchRegs,
                    watchCalls >>

\* The host fires the mount hook, at most MaxMounts times.
OnMounted(out) == mountCount < MaxMounts /\ FireMounted(out)

\* ============================================================= plugin.ts
\* onBeforeUpdate, first loop: one cell, left as it is.
LeaveClean(c) == c

\* onBeforeUpdate, first loop: one cell.
MarkDirty(c) == [c EXCEPT !.dirty = TRUE]

\* onBeforeUpdate, first loop: computed.forEach
MarkAllDirty(w) ==
    [w EXCEPT !.computed = [i \in DOMAIN w.computed |-> MarkDirty(w.computed[i])],
              !.epoch = [i \in DOMAIN w.epoch |-> NewEpoch("pass")],
              !.log = @ \o [i \in DOMAIN w.computed |->
                               Ev("dirty", i, 0, "", "")]]

\* What a watcher's getter and callback do when a pass invokes them.
WatchOutcomes == {"ok", "getterThrows", "callbackThrows"}

\* onBeforeUpdate, second loop: the inner try block, around the callback.
WatchCallback(w, i, newValue, prevValue, o) ==
    Catch([Emit(w, Ev("watch", i, 0, newValue, prevValue))
             EXCEPT !.raised = (o = "callbackThrows")],
          i, "watch callback")

\* onBeforeUpdate, second loop: one watcher, comparing with ===.
CheckWatcherStrict(w, i, o) ==
    LET newValue  == Get(w.raw, w.watchers[i].getter)
        prevValue == w.watchers[i].oldValue
        w1        == Emit(w, Ev("wget", i, w.watchers[i].id, newValue, ""))
    IN  IF ~StrictEquals(newValue, prevValue)
        THEN WatchCallback([w1 EXCEPT !.watchers[i].oldValue = newValue],
                           i, newValue, prevValue, o)
        ELSE w1

\* onBeforeUpdate, second loop: one watcher, storing the new value only
\* after the callback returned.
CheckWatcherLateStore(w, i, o) ==
    LET newValue  == Get(w.raw, w.watchers[i].getter)
        prevValue == w.watchers[i].oldValue
        w1        == Emit(w, Ev("wget", i, w.watchers[i].id, newValue, ""))
        w2        == WatchCallback(w1, i, newValue, prevValue, o)
    IN  IF o = "getterThrows"
        THEN Catch([Emit(w, Ev("wget", i, w.watchers[i].id, "throw", ""))
                      EXCEPT !.raised = TRUE],
                   i, "watch getter")
        ELSE IF ~ObjectIs(newValue, prevValue)
             THEN IF o = "callbackThrows"
                  THEN w2
                  ELSE [w2 EXCEPT !.watchers[i].oldValue = newValue]
             ELSE w1

\* onBeforeUpdate, second loop: the body of the outer try block.
WatcherBody(w, i, o) ==
    LET newValue  == Get(w.raw, w.watchers[i].getter)
        prevValue == w.watchers[i].oldValue
        w1        == Emit(w, Ev("wget", i, w.watchers[i].id, newValue, ""))
    IN  IF o = "getterThrows"
        THEN [Emit(w, Ev("wget", i, w.watchers[i].id, "throw", ""))
                EXCEPT !.raised = TRUE]
        ELSE IF ~ObjectIs(newValue, prevValue)
             THEN WatchCallback([w1 EXCEPT !.watchers[i].oldValue = newValue],
                                i, newValue, prevValue, o)
             ELSE w1

\* onBeforeUpdate, second loop: one watcher, without the outer try block.
CheckWatcherUncaught(w, i, o) == WatcherBody(w, i, o)

\* onBeforeUpdate, second loop: one watcher.
CheckWatcher(w, i, o) == Catch(WatcherBody(w, i, o), i, "watch getter")

\* onBeforeUpdate, second loop: watchers.forEach
RECURSIVE CheckWatchers(_, _, _)
CheckWatchers(w, i, wo) ==
    IF w.raised \/ i > Len(w.watchers)
    THEN w
    ELSE CheckWatchers(CheckWatcher(w, i, wo[i]), i + 1, wo)

\* array[i] of a JavaScript array: undefined past the end.
At(arr, i) == IF i \in DOMAIN arr THEN arr[i] ELSE "undefined"

\* hasChanged without the length comparison.
HasChangedNoLength(depsDefined, old, new) ==
    \/ ~depsDefined
    \/ \E i \in DOMAIN new : ~ObjectIs(new[i], At(old, i))

\* hasChanged comparing the arrays themselves: a new array is never the old.
HasChangedByIdentity(depsDefined, old, new) == TRUE

\* hasChanged of onBeforeUpdate
HasChanged(depsDefined, old, new) ==
    \/ ~depsDefined
    \/ Len(old) # Len(new)
    \/ \E i \in DOMAIN new : ~ObjectIs(new[i], At(old, i))

\* The re-run of one effect without the call of its stored cleanup.
RerunWithoutCleanup(w, e, outcome) == InvokeEffect(w, e, outcome)

\* onBeforeUpdate, third loop: the re-run of one effect.
RerunEffect(w, e, outcome) ==
    InvokeEffect(RunCleanup(w, e), e, outcome)

\* onBeforeUpdate, third loop: one effect, without the guard on deps.
CheckEffectUnguarded(w, e, outcome) ==
    LET d       == w.effectData[e]
        newDeps == EvalDeps(d.depsGetter, w.raw)
        w1      == Emit(w, Ev("deps", e, 0, "", ""))
    IN  IF HasChanged(d.depsDefined, d.deps, newDeps)
        THEN RerunEffect([w1 EXCEPT !.effectData[e].deps = newDeps,
                                    !.effectData[e].depsDefined = TRUE],
                         e, outcome)
        ELSE w1

\* onBeforeUpdate, third loop: one effect.  The call of depsGetter is in no
\* try block: if it raises ("depsThrow"), the error is left pending.
CheckEffect(w, e, outcome) ==
    LET d       == w.effectData[e]
        newDeps == EvalDeps(d.depsGetter, w.raw)
        w1      == Emit(w, Ev("deps", e, 0, "", ""))
    IN  IF d.depsDefined /\ d.depsGetter # "none"
        THEN IF outcome = "depsThrow" /\ d.depsGetter # "empty"
             THEN [w1 EXCEPT !.raised = TRUE]
             ELSE IF HasChanged(d.depsDefined, d.deps, newDeps)
                  THEN RerunEffect([w1 EXCEPT !.effectData[e].deps = newDeps],
                                   e, outcome)
                  ELSE w1
        ELSE w

\* onBeforeUpdate, third loop: effects.forEach
RECURSIVE CheckEffects(_, _, _)
CheckEffects(w, k, out) ==
    IF w.raised \/ k > Len(w.effects)
    THEN w
    ELSE CheckEffects(CheckEffect(w, w.effects[k], out[w.effects[k]]),
                      k + 1, out)

\* The wrapped onBeforeUpdate hook with the second and third loops swapped.
OnBeforeUpdateEffectsFirst(w, wo, out) ==
    OriginalHook(CheckWatchers(CheckEffects(MarkAllDirty(w), 1, out), 1, wo),
                 "onBeforeUpdate")

\* The wrapped onBeforeUpdate hook.
OnBeforeUpdateW(w, wo, out) ==
    OriginalHook(CheckEffects(CheckWatchers(MarkAllDirty(w), 1, wo), 1, out),
                 "onBeforeUpdate")

\* What each watcher does if a pass invokes it in this step.
WatcherOutcomes == [DOMAIN watchers -> WatchOutcomes]

\* Every watcher's getter and callback return.
NoWatchErrors == [i \in DOMAIN watchers |-> "ok"]

\* The host fires the pre-update hook.
OnBeforeUpdate(wo, out) ==
    /\ Alive
    /\ CanRunEffects
    /\ Commit(OnBeforeUpdateW(World, wo, out))
    /\ op' = Op("beforeUpdate", "", "", 0)
    /\ UNCHANGED << proxied, onMounted, phase, mountCount, regMount,
                    watchRegs, watchCalls >>

\* One entry of the cleanup list, calling the cleanup the effect had when the
\* entry was pushed: none.
CleanupEntryAtRegistration(w, k) ==
    Emit([w EXCEPT !.entryRuns[k] = @ + 1], Ev("entry", k, 0, "", ""))

\* One entry of the cleanup list, the function createEffect pushed: call the
\* effect's current cleanup, if any.
CleanupEntry(w, k) ==
    CallCleanup(Emit([w EXCEPT !.entryRuns[k] = @ + 1],
                     Ev("entry", k, 0, "", "")),
                w.cleanups[k])

\* onBeforeUnmount: one entry called outside any try block.
RunEntryUncaught(w, k) == CleanupEntry(w, k)

\* onBeforeUnmount: the try block around one entry.
RunEntry(w, k) == Catch(CleanupEntry(w, k), k, "cleanup")

\* onBeforeUnmount stopping before the last entry.
RECURSIVE RunCleanupsButLast(_, _)
RunCleanupsButLast(w, k) ==
    IF k >= Len(w.cleanups)
    THEN w
    ELSE RunCleanupsButLast(RunEntry(w, k), k + 1)

\* onBeforeUnmount: cleanups.forEach
RECURSIVE RunCleanups(_, _)
RunCleanups(w, k) ==
    IF w.raised \/ k > Len(w.cleanups)
    THEN w
    ELSE RunCleanups(RunEntry(w, k), k + 1)

\* The wrapped onBeforeUnmount hook.
OnBeforeUnmountW(w) == OriginalHook(RunCleanups(w, 1), "onBeforeUnmount")

\* The host fires the pre-unmount hook.
OnBeforeUnmount ==
    /\ Alive
    /\ Commit(OnBeforeUnmountW(World))
    /\ phase' = "unmounting"
    /\ op' = Op("beforeUnmount", "", "", 0)
    /\ UNCHANGED << proxied, onMounted, mountCount, regMount, watchRegs,
                    watchCalls >>

\* The wrapped onUnmounted hook.
OnUnmountedW(w) ==
    OriginalHook([w EXCEPT !.states = << >>, !.effects = << >>,
                           !.computed = << >>, !.watchers = << >>,
                           !.cleanups = << >>],
                 "onUnmounted")

\* The host fires the post-unmount hook.
OnUnmounted ==
    /\ phase = "unmounting"
    /\ Commit(OnUnmountedW(World))
    /\ phase' = "unmounted"
    /\ op' = Op("unmounted", "", "", 0)
    /\ UNCHANGED << proxied, onMounted, mountCount, regMount, watchRegs,
                    watchCalls >>

\* ================================================== plugin.ts, the module
\* What a call on the plugin module leaves alone, and its record in op.
PluginCall(name, result) ==
    /\ op' = Op(name, "", result, 0)
    /\ UNCHANGED << raw, proxied, states, updateCalls, computed, effectData,
                    effects, watchers, cleanups, onMounted, phase, mountCount,
                    effectRuns, cleanupRuns, entryRuns, regMount, watchRegs,
                    watchCalls, epoch, raised, tooDeep, log, heapVars >>

\* installComposables without the test of the installed flag.
InstallAlways ==
    /\ pluginRef' = "composablesPlugin"
    /\ installs' = installs + 1
    /\ isInstalled' = TRUE
    /\ UNCHANGED << uninstalls, warnings >>
    /\ PluginCall("install", "")

\* installComposables()
InstallComposables ==
    /\ IF isInstalled
       THEN /\ warnings' = warnings + 1
            /\ UNCHANGED << isInstalled, pluginRef, installs, uninstalls >>
       ELSE /\ pluginRef' = "composablesPlugin"
            /\ installs' = installs + 1
            /\ isInstalled' = TRUE
            /\ UNCHANGED << uninstalls, warnings >>
    /\ PluginCall("install", "")

\* uninstallComposables leaving the plugin reference in place.
UninstallKeepRef ==
    /\ IF ~isInstalled \/ pluginRef = "null"
       THEN /\ warnings' = warnings + 1
            /\ UNCHANGED << isInstalled, pluginRef, installs, uninstalls >>
       ELSE /\ uninstalls' = uninstalls + 1
            /\ isInstalled' = FALSE
            /\ UNCHANGED << pluginRef, installs, warnings >>
    /\ PluginCall("uninstall", "")

\* uninstallComposables()
UninstallComposables ==
    /\ IF ~isInstalled \/ pluginRef = "null"
       THEN /\ warnings' = warnings + 1
            /\ UNCHANGED << isInstalled, pluginRef, installs, uninstalls >>
       ELSE /\ uninstalls' = uninstalls + 1
            /\ isInstalled' = FALSE
            /\ pluginRef' = "null"
            /\ UNCHANGED << installs, warnings >>
    /\ PluginCall("uninstall", "")

\* isComposablesInstalled()
IsComposablesInstalled ==
    /\ UNCHANGED pluginVars
    /\ PluginCall("isInstalled", IF isInstalled THEN "true" ELSE "false")

\* ================================== reactive.ts, several host instances
\* Everything but the proxy store.
instVars == << raw, proxied, states, updateCalls, computed, effectData,
               effects, watchers, cleanups, onMounted, phase, mountCount,
               effectRuns, cleanupRuns, entryRuns, regMount, watchRegs,
               watchCalls, epoch, raised, tooDeep, pluginVars, log, op >>

\* The two module-level maps and the proxies created so far.
Heap ==
    [rawToReactive |-> rawToReactive, reactiveToRaw |-> reactiveToRaw,
     proxies |-> proxies]

\* createProxy without the look-up of an existing proxy.
createProxyAlways(h, target, c) ==
    LET k == Len(h.proxies) + 1
    IN  [h  |-> [rawToReactive |-> [h.rawToReactive EXCEPT ![target] = k],
                 reactiveToRaw |-> Append(h.reactiveToRaw, target),
                 proxies |-> Append(h.proxies,
                                    [target |-> target, component |-> c])],
         px |-> k]

\* createProxy(target) of the createReactive call made for component c: the
\* proxy already mapped to the target, or a new one whose traps close over c.
createProxy(h, target, c) ==
    IF h.rawToReactive[target] # 0
    THEN [h |-> h, px |-> h.rawToReactive[target]]
    ELSE createProxyAlways(h, target, c)

Result(name, c, arg, key, out, flag) ==
    [name |-> name, c |-> c, arg |-> arg, key |-> key, out |-> out,
     flag |-> flag]

Handed(how, c, o, parent, key, k) ==
    [how |-> how, c |-> c, obj |-> o, parent |-> parent, key |-> key,
     px |-> k]

\* createReactive(component, initialState): an existing proxy is returned
\* before anything is stored in the component's states.
CreateReactiveIn(c, o) ==
    LET existingProxy == rawToReactive[o]
        made == createProxy(Heap, o, c)
        k == IF existingProxy # 0 THEN existingProxy ELSE made.px
    IN  /\ IF existingProxy # 0
           THEN UNCHANGED << rawToReactive, reactiveToRaw, proxies, statesOf >>
           ELSE /\ rawToReactive' = made.h.rawToReactive
                /\ reactiveToRaw' = made.h.reactiveToRaw
                /\ proxies' = made.h.proxies
                /\ statesOf' = [statesOf EXCEPT ![c] = Append(@, made.px)]
        /\ handed' = handed \cup {Handed("wrap", c, o, 0, "", k)}
        /\ ret' = Result("wrap", c, RawOf(o), "", ProxyOf(k),
                         existingProxy # 0)
        /\ UNCHANGED << updatesOf, instVars >>

\* The get trap of proxy k: an object or array value is returned as
\* createProxy(value), anything else (a function included) as it is.
ProxyGet(k, key) ==
    LET value == Child[proxies[k].target][key]
        wrapped == value # "none" /\ ObjKind[value] # "function"
        made == createProxy(Heap, value, proxies[k].component)
    IN  /\ k \in DOMAIN proxies
        /\ IF wrapped
           THEN /\ rawToReactive' = made.h.rawToReactive
                /\ reactiveToRaw' = made.h.reactiveToRaw
                /\ proxies' = made.h.proxies
                /\ handed' = handed \cup
                      {Handed("get", "", value, k, key, made.px)}
                /\ ret' = Result("get", "", ProxyOf(k), key,
                                 ProxyOf(made.px), TRUE)
           ELSE /\ UNCHANGED << rawToReactive, reactiveToRaw, proxies,
                                handed >>
                /\ ret' = Result("get", "", ProxyOf(k), key,
                                 IF value = "none" THEN Prim("number")
                                 ELSE RawOf(value), FALSE)
        /\ UNCHANGED << statesOf, updatesOf, instVars >>

\* The set trap of proxy k, for a value that differs from the stored one,
\* used by the instance that createReactive returned k to: the update() called
\* is that of the component the trap closes over.
ProxySetBy(c, k) ==
    /\ \E r \in handed : r.how = "wrap" /\ r.c = c /\ r.px = k
    /\ updatesOf' = [updatesOf EXCEPT ![proxies[k].component] = @ + 1]
    /\ ret' = Result("set", c, ProxyOf(k), "", Prim("undefined"), TRUE)
    /\ UNCHANGED << rawToReactive, reactiveToRaw, proxies, statesOf, handed,
                    instVars >>

\* typeof value
TypeOf(h, v) ==
    CASE v.kind \in {"object", "array", "heir", "null"} -> "object"
      [] v.kind = "proxy" ->
            IF ObjKind[h.proxies[v.px].target] = "function"
            THEN "function" ELSE "object"
      [] OTHER -> v.kind

\* REACTIVE_MARKER in value: the has trap of a proxy answers true, for the
\* proxy and for every object that has the proxy on its prototype chain; no
\* other object has the module's symbol as a key.
HasMarker(v) == v.kind \in {"proxy", "heir"}

isReactive(h, v) ==
    v.kind # "null" /\ TypeOf(h, v) = "object" /\ HasMarker(v)

\* toRaw without the look-up in reactiveToRaw.
toRawNoLookup(h, v) == v

toRaw(h, v) ==
    IF TypeOf(h, v) # "object" \/ v.kind = "null"
    THEN v
    ELSE IF v.kind = "proxy" THEN RawOf(h.reactiveToRaw[v.px]) ELSE v

\* The values a caller can pass: raw objects, the proxies created so far,
\* objects that inherit from one of them, and primitives.
HeapValues ==
    {RawOf(o) : o \in Objs} \cup {ProxyOf(k) : k \in DOMAIN proxies}
       \cup {HeirOf(k) : k \in DOMAIN proxies}
       \cup {Prim(t) : t \in {"null", "undefined", "number", "string"}}

IsReactiveOf(v) ==
    /\ ret' = Result("isReactive", "", v, "", Prim("undefined"), isReactive(Heap, v))
    /\ UNCHANGED << rawToReactive, reactiveToRaw, proxies, statesOf, updatesOf,
                    handed, instVars >>

ToRawOf(v) ==
    /\ ret' = Result("toRaw", "", v, "", toRaw(Heap, v), FALSE)
    /\ UNCHANGED << rawToReactive, reactiveToRaw, proxies, statesOf, updatesOf,
                    handed, instVars >>

\* ================================================ a host that re-renders
\* The riot host: component.update() runs the pre-update hook synchronously,
\* so a write made by a watcher callback or an effect body nests a pass
\* inside the pass that invoked it.  cb tells what every callback does when
\* it is invoked: cb.watch[i] and cb.effect[e] are one write each, or none.
NoWrite == [p |-> "", v |-> ""]

RECURSIVE SyncPass(_, _, _)

\* component.update() of the riot host, called with fuel passes left to nest.
SyncUpdate(w, cb, fuel) ==
    LET w1 == Emit([w EXCEPT !.updateCalls = @ + 1],
                   Ev("update", 0, MaxDepth - fuel, "ok", ""))
    IN  IF fuel = 0
        THEN [w1 EXCEPT !.tooDeep = TRUE]
        ELSE SyncPass(w1, cb, fuel - 1)

\* The body of a callback: the set trap of the proxy, over the riot host.
\* A write that goes through is traced as a "set" event that carries the
\* value in nv and the property in ov.
SyncWrite(w, act, cb, fuel) ==
    IF act = NoWrite \/ ObjectIs(Get(w.raw, act.p), act.v)
    THEN w
    ELSE Catch(SyncUpdate(Emit([w EXCEPT !.raw[act.p] = act.v],
                               Ev("set", 0, 0, act.v, act.p)),
                          cb, fuel),
               0, "update")

\* onBeforeUpdate, second loop over the riot host: one watcher, storing the
\* new value only after the callback returned.
SyncWatcherLateStore(w, i, cb, fuel) ==
    LET newValue  == Get(w.raw, w.watchers[i].getter)
        prevValue == w.watchers[i].oldValue
        w1        == Emit(w, Ev("wget", i, w.watchers[i].id, newValue, ""))
        w2        == Catch(SyncWrite(Emit(w1, Ev("watch", i, 0, newValue,
                                                  prevValue)),
                                     cb.watch[i], cb, fuel),
                           i, "watch callback")
    IN  IF ~ObjectIs(newValue, prevValue)
        THEN [w2 EXCEPT !.watchers[i].oldValue = newValue]
        ELSE w1

\* onBeforeUpdate, second loop over the riot host: one watcher.
SyncWatcher(w, i, cb, fuel) ==
    LET newValue  == Get(w.raw, w.watchers[i].getter)
        prevValue == w.watchers[i].oldValue
        w1        == Emit(w, Ev("wget", i, w.watchers[i].id, newValue, ""))
        w2        == [w1 EXCEPT !.watchers[i].oldValue = newValue]
    IN  IF ~ObjectIs(newValue, prevValue)
        THEN Catch(SyncWrite(Emit(w2, Ev("watch", i, 0, newValue, prevValue)),
                             cb.watch[i], cb, fuel),
                   i, "watch callback")
        ELSE w1

\* onBeforeUpdate, second loop over the riot host: watchers.forEach
RECURSIVE SyncWatchers(_, _, _, _)
SyncWatchers(w, i, cb, fuel) ==
    IF w.raised \/ w.tooDeep \/ i > Len(w.watchers)
    THEN w
    ELSE SyncWatchers(SyncWatcher(w, i, cb, fuel), i + 1, cb, fuel)

\* onBeforeUpdate, third loop over the riot host: one effect, storing the
\* new snapshot only after the body returned.
SyncEffectLateStore(w, e, cb, fuel) ==
    LET d       == w.effectData[e]
        newDeps == EvalDeps(d.depsGetter, w.raw)
        w1      == Emit(w, Ev("deps", e, 0, "", ""))
        w2      == Catch(SyncWrite(CallEffect(RunCleanup(w1, e), e, "void"),
                                   cb.effect[e], cb, fuel),
                         e, "effect")
    IN  IF d.depsDefined /\ d.depsGetter # "none"
        THEN IF HasChanged(d.depsDefined, d.deps, newDeps)
             THEN [w2 EXCEPT !.effectData[e].deps = newDeps]
             ELSE w1
        ELSE w

\* onBeforeUpdate, third loop over the riot host: one effect, whose body
\* returns no cleanup.
SyncEffect(w, e, cb, fuel) ==
    LET d       == w.effectData[e]
        newDeps == EvalDeps(d.depsGetter, w.raw)
        w1      == Emit(w, Ev("deps", e, 0, "", ""))
        w2      == RunCleanup([w1 EXCEPT !.effectData[e].deps = newDeps], e)
    IN  IF d.depsDefined /\ d.depsGetter # "none"
        THEN IF HasChanged(d.depsDefined, d.deps, newDeps)
             THEN Catch(SyncWrite(CallEffect(w2, e, "void"),
                                  cb.effect[e], cb, fuel),
                        e, "effect")
             ELSE w1
        ELSE w

\* onBeforeUpdate, third loop over the riot host: effects.forEach
RECURSIVE SyncEffects(_, _, _, _)
SyncEffects(w, k, cb, fuel) ==
    IF w.raised \/ w.tooDeep \/ k > Len(w.effects)
    THEN w
    ELSE SyncEffects(SyncEffect(w, w.effects[k], cb, fuel), k + 1, cb, fuel)

\* The wrapped onBeforeUpdate hook over the riot host.
SyncPass(w, cb, fuel) ==
    LET w1 == SyncEffects(SyncWatchers(MarkAllDirty(w), 1, cb, fuel),
                          1, cb, fuel)
    IN  IF w1.tooDeep THEN w1 ELSE OriginalHook(w1, "onBeforeUpdate")

\* The values written in the nesting specification.
NestValues == {"0", "1", "NaN"}

\* What a watcher callback can do: nothing, or write a constant to a.
WatchActs == {NoWrite} \cup {[p |-> "a", v |-> v] : v \in NestValues}

\* What an effect body can do: nothing, or write a constant to b.
EffectActs == {NoWrite, [p |-> "b", v |-> "1"]}

\* What every callback of the instance does when it is invoked.
Callbacks ==
    [watch : [DOMAIN watchers -> WatchActs],
     effect : [DOMAIN effectData -> EffectActs]]

\* proxy[p] = v from outside any callback, over the riot host.
SyncSet(p, v, cb) ==
    /\ Alive
    /\ proxied
    /\ ~tooDeep
    /\ Commit(SyncWrite(World, [p |-> p, v |-> v], cb, MaxDepth))
    /\ op' = Op("syncSet", p, v, 0)
    /\ UNCHANGED << proxied, onMounted, phase, mountCount, regMount,
                    watchRegs, watchCalls >>

\* ========================================================= specifications
\* The initial states a caller passes to createReactive.
InitialStates == [Props -> {"0", "1", Absent}]

NextReactive ==
    \/ \E init \in InitialStates : CreateReactive(init)
    \/ \E p \in Props, v \in Values, throws \in BOOLEAN :
          updateCalls < MaxWrites /\ ProxySet(p, v, throws)
    \/ \E p \in Props, throws \in BOOLEAN, configurable \in BOOLEAN :
          updateCalls < MaxWrites /\ ProxyDelete(p, throws, configurable)

\* The proxy store alone: every value, writes and deletes, over a host whose
\* update() may raise.
SpecReactive == Init /\ [][NextReactive]_vars

\* The values and initial states of the lifecycle specifications.
FewValues == {"0", "1"}
FewStates == [Props -> FewValues]
EffectStates ==
    { [a |-> "0", b |-> "0"], [a |-> "0", b |-> "1"], [a |-> "NaN", b |-> "0"] }

NextComputed ==
    \/ \E init \in FewStates : CreateReactive(init)
    \/ \E p \in Props, v \in FewValues :
          updateCalls < MaxUpdates /\ ProxySet(p, v, FALSE)
    \/ \E p \in Props : CreateComputed(p)
    \/ \E i \in 1..MaxComputed, throws \in BOOLEAN : ReadComputed(i, throws)
    \/ \E out \in Outcomes : OnBeforeUpdate(NoWatchErrors, out)

\* Computed cells over the proxy store.
SpecComputed == Init /\ [][NextComputed]_vars

\* createWatch calls whose seeding getter raised.
FailedWatches == {id \in DOMAIN watchCalls : watchCalls[id] = "throw"}

NextWatch ==
    \/ \E init \in InitialStates : CreateReactive(init)
    \/ \E p \in Props, v \in Values :
          updateCalls < MaxUpdates /\ ProxySet(p, v, FALSE)
    \/ \E p \in Props : updateCalls < MaxUpdates /\ ProxyDelete(p, FALSE, TRUE)
    \/ \E p \in Props :
          Len(watchers) < MaxWatchers /\ CreateWatch(p, FALSE)
    \/ \E p \in Props :
          Cardinality(FailedWatches) < MaxWatchers /\ CreateWatch(p, TRUE)
    \/ \E out \in Outcomes : OnBeforeUpdate(NoWatchErrors, out)

\* Watchers over the proxy store, with seeding getters that may raise.
SpecWatch == Init /\ [][NextWatch]_vars

\* The dependency getters of the effect specification.
EffectDeps == {"none", "a", "len"}

NextEffects ==
    \/ \E init \in EffectStates : CreateReactive(init)
    \/ \E p \in Props, v \in FewValues :
          updateCalls < MaxUpdates /\ ProxySet(p, v, FALSE)
    \/ \E g \in EffectDeps : Len(effectData) < MaxEffects /\ CreateEffect(g)
    \/ \E out \in Outcomes : OnMounted(out)
    \/ \E out \in Outcomes : OnBeforeUpdate(NoWatchErrors, out)
    \/ OnBeforeUnmount
    \/ OnUnmounted

\* Effects over the proxy store, from registration to teardown.
SpecEffects == Init /\ [][NextEffects]_vars

Next ==
    \/ \E init \in FewStates : CreateReactive(init)
    \/ \E p \in Props, v \in FewValues :
          updateCalls < MaxUpdates /\ ProxySet(p, v, FALSE)
    \/ \E p \in Props : updateCalls < MaxUpdates /\ ProxyDelete(p, FALSE, TRUE)
    \/ \E p \in Props : CreateComputed(p)
    \/ \E i \in 1..MaxComputed, throws \in BOOLEAN : ReadComputed(i, throws)
    \/ \E p \in Props :
          Len(watchers) < MaxWatchers /\ CreateWatch(p, FALSE)
    \/ \E g \in DepsGetters : Len(effectData) < MaxEffects /\ CreateEffect(g)
    \/ \E out \in Outcomes : OnMounted(out)
    \/ \E out \in Outcomes : OnBeforeUpdate(NoWatchErrors, out)
    \/ OnBeforeUnmount
    \/ OnUnmounted

\* The whole instance.
Spec == Init /\ [][Next]_vars

NextLifecycle ==
    \/ \E init \in FewStates : CreateReactive(init)
    \/ \E p \in Props : CreateComputed(p)
    \/ \E p \in Props :
          Len(watchers) < MaxWatchers /\ CreateWatch(p, FALSE)
    \/ \E g \in DepsGetters : Len(effectData) < MaxEffects /\ CreateEffect(g)
    \/ \E out \in Outcomes : OnMounted(out)
    \/ OnBeforeUnmount
    \/ OnUnmounted

\* Registration, mount and teardown of every kind of entry, without updates.
SpecLifecycle == Init /\ [][NextLifecycle]_vars

\* What an effect body does in the hook specification: return a non-function,
\* raise, or return a function that raises when it is called.
HookOutcomes == [DOMAIN effectData -> {"void", "throw", "fnThrows"}]

\* The one initial state of the hook and pass specifications.
ZeroState == [p \in Props |-> "0"]

NextHooks ==
    \/ CreateReactive(ZeroState)
    \/ \E v \in FewValues :
          updateCalls < MaxUpdates /\ ProxySet("a", v, FALSE)
    \/ Len(effectData) < MaxChain /\ CreateEffect("a")
    \/ \E out \in HookOutcomes : OnMounted(out)
    \/ \E out \in HookOutcomes : OnBeforeUpdate(NoWatchErrors, out)
    \/ OnBeforeUnmount
    \/ OnUnmounted

\* Several effects on one instance, with bodies and cleanups that may raise:
\* the order and the error handling of the three hooks.
SpecHooks == Init /\ [][NextHooks]_vars

\* Every effect body returns a non-function.
QuietEffects == [e \in DOMAIN effectData |-> "void"]

\* What an effect does in a pass of the wrapper specification: its dependency
\* getter may raise; a body given by the caller returns a non-function.
UseOutcomes == [DOMAIN effectData -> {"void", "depsThrow"}]

NextUse ==
    \/ CreateReactive(ZeroState)
    \/ \E v \in FewValues :
          updateCalls < MaxUpdates /\ ProxySet("a", v, FALSE)
    \/ Len(effectData) < MaxChain /\ CreateEffect("a")
    \/ CreateEffectDepsThrow("a")
    \/ Len(effectData) < MaxChain /\ UseMount
    \/ Len(effectData) < MaxChain /\ UseUnmount
    \/ OnMounted(QuietEffects)
    \/ \E out \in UseOutcomes : OnBeforeUpdate(NoWatchErrors, out)
    \/ OnBeforeUnmount
    \/ OnUnmounted

\* useMount and useUnmount beside an effect with a dependency getter, through
\* the four hooks.
SpecUse == Init /\ [][NextUse]_vars


NextOrder ==
    \/ CreateReactive(ZeroState)
    \/ \E v \in FewValues :
          updateCalls < MaxUpdates /\ ProxySet("a", v, FALSE)
    \/ CreateComputed("a")
    \/ \E p \in Props :
          Len(watchers) < MaxPassWatchers /\ CreateWatch(p, FALSE)
    \/ Len(effectData) < MaxChain /\ CreateEffect("a")
    \/ OnBeforeUpdate(NoWatchErrors, QuietEffects)

\* Several watchers and several effects beside a computed cell: the order of
\* one pre-update pass.
SpecOrder == Init /\ [][NextOrder]_vars

NextPass ==
    \/ CreateReactive(ZeroState)
    \/ \E v \in FewValues :
          updateCalls < MaxUpdates /\ ProxySet("a", v, FALSE)
    \/ \E p \in Props :
          Len(watchers) < MaxPassWatchers /\ CreateWatch(p, FALSE)
    \/ Len(effectData) < MaxEffects /\ CreateEffect("a")
    \/ \E wo \in WatcherOutcomes : OnBeforeUpdate(wo, QuietEffects)

\* Several watchers beside an effect, with getters and callbacks that may
\* raise: the error handling of one pre-update pass.
SpecPass == Init /\ [][NextPass]_vars

NextNested ==
    \/ CreateReactive(ZeroState)
    \/ \E p \in Props :
          Len(watchers) < MaxWatchers /\ ~tooDeep /\ CreateWatch(p, FALSE)
    \/ Len(effectData) < MaxEffects /\ ~tooDeep /\ CreateEffect("a")
    \/ \E p \in Props, v \in NestValues, cb \in Callbacks :
          updateCalls < MaxWrites /\ SyncSet(p, v, cb)

\* Watchers and effects whose callbacks write, over a host whose update()
\* runs the pre-update hook: passes nested inside passes.
SpecNested == Init /\ [][NextNested]_vars

\* The proxy store shared by two host instances.
NextIdentity ==
    \/ \E c \in Components, o \in Objs : CreateReactiveIn(c, o)
    \/ \E k \in DOMAIN proxies, key \in Keys : ProxyGet(k, key)
    \/ \E c \in Components, k \in DOMAIN proxies :
          updatesOf["A"] + updatesOf["B"] < MaxWrites /\ ProxySetBy(c, k)

SpecIdentity == Init /\ [][NextIdentity]_vars

\* isReactive and toRaw asked about every value one host instance can hold.
NextInspect ==
    \/ \E o \in Objs : CreateReactiveIn("A", o)
    \/ \E k \in DOMAIN proxies, key \in Keys : ProxyGet(k, key)
    \/ \E v \in HeapValues : IsReactiveOf(v)
    \/ \E v \in HeapValues : ToRawOf(v)

SpecInspect == Init /\ [][NextInspect]_vars

\* The objects given to createComputedObject: up to MaxCells getters under
\* distinct keys, each reading one property.
GroupKeys == {"first", "second", "third"}
Entries ==
    UNION { { e \in [1..n -> [key : GroupKeys, getter : Props]] :
                \A i \in 1..n, j \in 1..n : i # j => e[i].key # e[j].key }
            : n \in 0..MaxCells }

NextGroup ==
    \/ CreateReactive(ZeroState)
    \/ \E v \in FewValues :
          updateCalls < MaxUpdates /\ ProxySet("a", v, FALSE)
    \/ \E entries \in Entries :
          computed = << >> /\ CreateComputedObject(entries)
    \/ \E i \in DOMAIN computed : ReadComputed(i, FALSE)
    \/ OnBeforeUpdate(NoWatchErrors, QuietEffects)

\* One group of computed cells over the proxy store.
SpecGroup == Init /\ [][NextGroup]_vars

\* What an effect body does when it is invoked again: return a function,
\* return a function that raises when called, or return a non-function.
RerunOutcomes == [DOMAIN effectData -> {"fn", "fnThrows", "void"}]

NextRerun ==
    \/ CreateReactive(ZeroState)
    \/ \E v \in FewValues :
          updateCalls < MaxUpdates /\ ProxySet("a", v, FALSE)
    \/ \E g \in {"none", "a"} : Len(effectData) < MaxEffects /\ CreateEffect(g)
    \/ \E out \in RerunOutcomes : mountCount < MaxRuns /\ FireMounted(out)
    \/ \E out \in RerunOutcomes : OnBeforeUpdate(NoWatchErrors, out)

\* Effects invoked again, by repeated mount firings and by passes.
SpecRerun == Init /\ [][NextRerun]_vars

\* Every effect body returns a function.
WithCleanups == [e \in DOMAIN effectData |-> "fn"]

NextIdle ==
    \/ CreateReactive(ZeroState)
    \/ \E v \in {"1", "NaN"} :
          updateCalls < MaxUpdates /\ ProxySet("a", v, FALSE)
    \/ CreateComputed("a")
    \/ ReadComputed(1, FALSE)
    \/ Len(watchers) < MaxWatchers /\ CreateWatch("a", FALSE)
    \/ Len(effectData) < MaxEffects /\ CreateEffect("a")
    \/ OnMounted(WithCleanups)
    \/ OnBeforeUpdate(NoWatchErrors, WithCleanups)

\* A computed cell, a watcher and an effect with a stored cleanup: passes
\* that find something changed and passes that find nothing changed.
SpecIdle == Init /\ [][NextIdle]_vars

\* The arrays given to createWatchMultiple.
Pairs ==
    UNION { [1..n -> [getter : Props, throws : BOOLEAN]] : n \in 0..MaxPairs }

NextMultiple ==
    \/ \E init \in FewStates : CreateReactive(init)
    \/ \E p \in Props, v \in FewValues :
          updateCalls < MaxUpdates /\ ProxySet(p, v, FALSE)
    \/ \E pairs \in Pairs :
          Len(watchCalls) + Len(pairs) <= MaxPairs /\ CreateWatchMultiple(pairs)
    \/ OnBeforeUpdate(NoWatchErrors, QuietEffects)

\* Watchers registered in groups, with seeding getters that may raise.
SpecMultiple == Init /\ [][NextMultiple]_vars

\* The plugin module alone: any sequence of the three exported calls.
NextPlugin ==
    \/ installs < MaxInstalls /\ warnings < MaxWarnings /\ InstallComposables
    \/ warnings < MaxWarnings /\ UninstallComposables
    \/ IsComposablesInstalled

SpecPlugin == Init /\ [][NextPlugin]_vars

\* ================================================================= claims
\* The events of the last handler's trace that satisfy Test.
EventsOf(trace, kind, i) ==
    LET Test(x) == x.ev = kind /\ x.i = i
    IN  SelectSeq(trace, Test)

C2_NoOpOnEqualWrite ==
    [][\A p \in Props, v \in Values :
          (op' = Op("set", p, v, 0) /\ Get(raw, p) = v)
              => /\ raw' = raw
                 /\ updateCalls' = updateCalls
                 /\ log' = << >>]_vars

\* C2 witness: NaN was written over NaN and nothing was notified.
C2_Witness ==
    /\ op = Op("set", "a", "NaN", 0)
    /\ raw["a"] = "NaN"
    /\ log = << >>
    /\ updateCalls = 1

\* Two dependency snapshots are equal: same length, pairwise the same value.
SameSnapshot(old, new) ==
    /\ Len(old) = Len(new)
    /\ \A j \in 1..Len(new) : old[j] = new[j]

\* The cleanup and effect events of effect e, in the order they happened.
RunsOf(trace, e) ==
    LET Test(x) == x.ev \in {"cleanup", "effect"} /\ x.i = e
    IN  SelectSeq(trace, Test)

\* The two fields of an event that tell which call it was.
Call(x) == << x.ev, x.n >>

\* C3: in a pre-update pass, an effect with a depsGetter whose new snapshot
\* equals the stored one is not invoked and keeps its stored snapshot; when an
\* element or the length differs, the stored cleanup (if any) is invoked
\* once, and then the effect is invoked once.
C3_EffectDependencyGating ==
    [][op'.name = "beforeUpdate" =>
         \A e \in DOMAIN effectData :
            effectData[e].depsGetter # "none" =>
               LET old  == effectData[e].deps
                   new  == EvalDeps(effectData[e].depsGetter, raw)
                   c    == effectData[e].cleanup
                   runs == RunsOf(log', e)
               IN  IF SameSnapshot(old, new)
                   THEN /\ runs = << >>
                        /\ effectData'[e].deps = old
                        /\ effectRuns'[e] = effectRuns[e]
                   ELSE /\ effectRuns'[e] = effectRuns[e] + 1
                        /\ IF c = 0
                           THEN /\ Len(runs) = 1
                                /\ Call(runs[1]) = << "effect", effectRuns'[e] >>
                           ELSE /\ Len(runs) = 2
                                /\ Call(runs[1]) = << "cleanup", c >>
                                /\ Call(runs[2]) = << "effect", effectRuns'[e] >>
                                /\ cleanupRuns'[e][c] = cleanupRuns[e][c] + 1]_vars

\* C3 witness: a pass found only the length of the snapshot changed, ran the
\* stored cleanup and then the effect.
C3_Witness ==
    /\ op.name = "beforeUpdate"
    /\ \E e \in DOMAIN effectData :
          /\ effectData[e].depsGetter = "len"
          /\ Len(effectData[e].deps) = 1
          /\ Len(RunsOf(log, e)) = 2
          /\ RunsOf(log, e)[1].ev = "cleanup"
          /\ RunsOf(log, e)[2].ev = "effect"

\* C4: in a pre-update pass a watcher's callback is invoked exactly when the
\* getter's new value differs from the stored previous value, once, with
\* (new value, stored previous value).
C4_WatchDiffCorrectness ==
    [][op'.name = "beforeUpdate" =>
         \A i \in DOMAIN watchers :
            LET newValue == Get(raw, watchers[i].getter)
                calls    == EventsOf(log', "watch", i)
            IN  IF newValue # watchers[i].oldValue
                THEN calls = << Ev("watch", i, 0, newValue,
                                   watchers[i].oldValue) >>
                ELSE calls = << >>]_vars

\* C4 witness: a pass invoked the callback of a watcher seeded with 0 with
\* (1, 0), after a write that had changed the watched property.
C4_Witness ==
    /\ op.name = "beforeUpdate"
    /\ \E i \in DOMAIN watchers :
          EventsOf(log, "watch", i) = << Ev("watch", i, 0, "1", "0") >>

\* C5: between two dirty-markings of a computed cell (or since its
\* creation), reads of .value that all return invoke the getter exactly once,
\* and every read returns the value of that one invocation.
C5_ComputedCaching ==
    /\ [](\A i \in DOMAIN epoch :
             (epoch[i].reads >= 1 /\ ~epoch[i].raised) => epoch[i].calls = 1)
    /\ [][(op'.name = "read" /\ op'.val # "raise")
             => op'.val = epoch'[op'.idx].val]_vars

\* C5 witness: a cell was read twice with one getter call, and the second read
\* returned the cached value although the property it reads had changed.
C5_Witness ==
    /\ op.name = "read"
    /\ epoch[op.idx].reads = 2
    /\ epoch[op.idx].calls = 1
    /\ ~epoch[op.idx].raised
    /\ op.val = computed[op.idx].cache
    /\ Get(raw, computed[op.idx].getter) # op.val

\* C6: a pre-update pass leaves every computed cell of the instance dirty, and
\* the first read of .value after a pass invokes the getter exactly once.
C6_CoarseInvalidation ==
    [][/\ op'.name = "beforeUpdate"
            => \A i \in DOMAIN computed' : computed'[i].dirty
       /\ \A i \in DOMAIN computed :
            (op'.name = "read" /\ op'.idx = i /\ epoch[i].src = "pass"
                 /\ epoch[i].reads = 0)
               => Len(EventsOf(log', "getter", i)) = 1]_vars

\* C6 witness: the first read after a pass called the getter although no
\* property was ever written.
C6_Witness ==
    /\ op.name = "read"
    /\ updateCalls = 0
    /\ epoch[op.idx].src = "pass"
    /\ epoch[op.idx].reads = 1
    /\ Len(EventsOf(log, "getter", op.idx)) = 1
    /\ op.val = Get(raw, computed[op.idx].getter)

\* C7: once pre-unmount and then post-unmount have fired, every entry pushed
\* on the cleanup list has been invoked exactly once, and states, computed,
\* effects, watchers and the cleanup list are empty.
C7_TeardownCompleteness ==
    phase = "unmounted" =>
        /\ \A k \in DOMAIN entryRuns : entryRuns[k] = 1
        /\ states = << >>
        /\ computed = << >>
        /\ effects = << >>
        /\ watchers = << >>
        /\ cleanups = << >>

\* C7 witness: an instance that had a state, a computed cell, a watcher and a
\* mounted effect with a stored cleanup has been torn down.
C7_Witness ==
    /\ phase = "unmounted"
    /\ proxied
    /\ Len(epoch) >= 1
    /\ watchRegs >= 1
    /\ Len(entryRuns) >= 1
    /\ \E e \in DOMAIN effectData :
          effectData[e].cleanup # 0 /\ cleanupRuns[e][effectData[e].cleanup] = 1

\* C8: every cleanup function returned by an invocation of an effect is
\* invoked at most once.
C8_CleanupAtMostOnce ==
    \A e \in DOMAIN cleanupRuns :
        \A n \in DOMAIN cleanupRuns[e] : cleanupRuns[e][n] <= 1

\* C9: after an invocation of an effect, the stored cleanup is the function
\* the invocation returned, and no cleanup is stored if it returned a
\* non-function.
C9_StoredCleanupFollowsReturn ==
    [][\A e \in DOMAIN effectData :
          \A j \in DOMAIN log' :
             (log'[j].ev = "effect" /\ log'[j].i = e) =>
                 /\ log'[j].nv = "fn" => effectData'[e].cleanup = log'[j].n
                 /\ log'[j].nv = "void" => effectData'[e].cleanup = 0]_vars

\* C10: an effect registered without a depsGetter before the first mount has
\* been invoked once per firing of the mount hook, whatever pre-update passes
\* have run: never before the mount, once by a single mount.
C10_MountOnlyEffect ==
    \A e \in DOMAIN effectData :
        (effectData[e].depsGetter = "none" /\ regMount[e] = 0)
            => effectRuns[e] = mountCount

\* C10 witness: after the mount and a changing write, a pass has run and the
\* effect without depsGetter has still been invoked once.
C10_Witness ==
    /\ op.name = "beforeUpdate"
    /\ mountCount = 1
    /\ updateCalls = 1
    /\ \E e \in DOMAIN effectData :
          effectData[e].depsGetter = "none" /\ effectRuns[e] = 1

\* C11: an effect registered after the mount hook has fired is invoked
\* immediately, by the registration itself.
C11_LateEffectRunsAtRegistration ==
    [][(op'.name = "createEffect" /\ mountCount >= 1)
          => /\ effectRuns'[op'.idx] = 1
             /\ Len(EventsOf(log', "effect", op'.idx)) = 1]_vars

\* The "effect" events of a trace, in the order they happened.
EffectEvents(trace) ==
    LET Test(x) == x.ev = "effect"
    IN  SelectSeq(trace, Test)

\* C12: one firing of the mount hook invokes the effects registered before it
\* in registration order, the first registered first.
C12_MountRunsInRegistrationOrder ==
    [][op'.name = "mounted"
          => LET runs == EffectEvents(log')
             IN  /\ Len(runs) = Len(effectData)
                 /\ \A j \in DOMAIN runs : runs[j].i = j]_vars

\* The events of one kind in a trace, in the order they happened.
EventsKind(trace, kind) ==
    LET Test(x) == x.ev = kind
    IN  SelectSeq(trace, Test)

\* The effects that have a dependency getter, in registration order.
EffectsWithGetter ==
    LET Test(e) == effectData[e].depsGetter # "none"
    IN  SelectSeq(effects, Test)

\* C13: in one pre-update pass every computed cell is marked dirty before any
\* watcher getter is invoked, every watcher getter is invoked before any
\* effect's dependency getter, and the watchers and the effects are each
\* visited in registration order.
C13_PassOrder ==
    op.name = "beforeUpdate" =>
        LET marks == EventsKind(log, "dirty")
            gets  == EventsKind(log, "wget")
            deps  == EventsKind(log, "deps")
        IN  /\ Len(marks) = Len(computed)
            /\ \A j \in DOMAIN marks : marks[j].i = j
            /\ Len(gets) = Len(watchers)
            /\ \A j \in DOMAIN gets : gets[j].i = j
            /\ \A j \in DOMAIN watchers :
                  \A k \in DOMAIN watchers :
                     j < k => watchers[j].id < watchers[k].id
            /\ Len(deps) = Len(EffectsWithGetter)
            /\ \A j \in DOMAIN deps : deps[j].i = EffectsWithGetter[j]
            /\ \A j \in DOMAIN log :
                  \A k \in DOMAIN log :
                     (\/ (log[j].ev = "dirty"
                            /\ log[k].ev \in {"wget", "watch"})
                      \/ (log[j].ev \in {"wget", "watch"}
                            /\ log[k].ev \in {"deps", "cleanup", "effect"}))
                        => j < k

\* C13 witness: a pass over one cell, two watchers and two effects, after a
\* write, in which a watcher callback and an effect ran.
C13_Witness ==
    /\ op.name = "beforeUpdate"
    /\ updateCalls = 1
    /\ Len(computed) = 1
    /\ Len(watchers) = 2
    /\ Len(effects) = 2
    /\ Len(EventsKind(log, "watch")) >= 1
    /\ Len(EventsKind(log, "effect")) = 2

\* C14: a read of .value of a dirty cell invokes the getter once; if the
\* getter raises, the read raises, the cell stays dirty and its cache is
\* untouched (so the next read invokes the getter again); a read returns a
\* value only when the getter returned it.
C14_DerivationErrorPropagation ==
    [][\A i \in DOMAIN computed :
          (op'.name = "read" /\ op'.idx = i /\ computed[i].dirty) =>
             LET calls == EventsOf(log', "getter", i)
             IN  /\ Len(calls) = 1
                 /\ IF calls[1].nv = "throw"
                    THEN /\ raised'
                         /\ op'.val = "raise"
                         /\ computed'[i].dirty
                         /\ computed'[i].cache = computed[i].cache
                    ELSE /\ ~raised'
                         /\ op'.val = calls[1].nv
                         /\ computed'[i].cache = calls[1].nv
                         /\ ~computed'[i].dirty]_vars

\* C14 witness: after a read that raised, the next read of the same cell
\* invoked the getter again and returned the freshly derived value.
C14_Witness ==
    /\ op.name = "read"
    /\ epoch[op.idx].raised
    /\ epoch[op.idx].reads = 2
    /\ epoch[op.idx].calls = 2
    /\ ~raised
    /\ ~computed[op.idx].dirty
    /\ op.val = Get(raw, computed[op.idx].getter)

\* The call of update() in the last handler's trace raised.
UpdateRaised(trace) ==
    \E j \in DOMAIN trace : trace[j].ev = "update" /\ trace[j].nv = "throw"

EndsWithHook(trace, name) ==
    /\ trace # << >>
    /\ trace[Len(trace)] = Ev("hook", 0, 0, name, "")

\* C16: an error raised by an effect body is caught.  A firing of the mount
\* hook returns normally, has invoked every registered effect once and ends
\* with the host's original hook; a pre-update pass returns normally, has
\* checked every effect that has a dependency getter, has invoked every one
\* whose snapshot changed, and ends with the host's original hook; whatever
\* the effect bodies did.
C16_EffectErrorContained ==
    [][/\ op'.name = "mounted" =>
            /\ ~raised'
            /\ \A e \in DOMAIN effectData :
                  Len(EventsOf(log', "effect", e)) = 1
            /\ EndsWithHook(log', "onMounted")
       /\ op'.name = "beforeUpdate" =>
            /\ ~raised'
            /\ \A e \in DOMAIN effectData :
                  effectData[e].depsGetter # "none" =>
                     /\ Len(EventsOf(log', "deps", e)) = 1
                     /\ ~SameSnapshot(effectData[e].deps,
                                      EvalDeps(effectData[e].depsGetter, raw))
                           => Len(EventsOf(log', "effect", e)) = 1
            /\ EndsWithHook(log', "onBeforeUpdate")]_vars

\* C16 witness: in a pass the first effect raised on its second invocation,
\* and the second effect was still invoked and the original hook called.
C16_Witness ==
    /\ op.name = "beforeUpdate"
    /\ ~raised
    /\ Len(effectData) = 2
    /\ EventsOf(log, "effect", 1) = << Ev("effect", 1, 2, "throw", "") >>
    /\ Len(EventsOf(log, "effect", 2)) = 1
    /\ EndsWithHook(log, "onBeforeUpdate")

\* C17: the pre-unmount hook runs every entry of the cleanup list once, in
\* registration order, returns normally and ends with the host's original
\* hook, whether or not an entry raised.
C17_EveryCleanupEntryRuns ==
    op.name = "beforeUnmount" =>
        LET entries == EventsKind(log, "entry")
        IN  /\ ~raised
            /\ Len(entries) = Len(cleanups)
            /\ \A k \in DOMAIN entries :
                  entries[k].i = k /\ cleanups[k] = k
            /\ EndsWithHook(log, "onBeforeUnmount")

\* C17 witness: the first entry of the cleanup list raised, and the second
\* entry still ran its effect's cleanup before the original hook.
C17_Witness ==
    /\ op.name = "beforeUnmount"
    /\ Len(cleanups) = 2
    /\ \E j \in DOMAIN log : log[j] = Ev("error", 1, 0, "cleanup", "")
    /\ Len(EventsOf(log, "cleanup", 2)) = 1
    /\ EndsWithHook(log, "onBeforeUnmount")

\* C18: createWatch invokes the getter exactly once and returns normally.  If
\* the getter returned, one entry is added whose previous value is the value
\* returned; if it raised, the error is reported and no entry is added.  A
\* pass invokes getters and callbacks of added entries only, never those of a
\* registration whose getter raised.
C18_WatchSeeding ==
    [][/\ op'.name = "createWatch" =>
            LET gets == EventsKind(log', "wget")
            IN  /\ Len(gets) = 1
                /\ ~raised'
                /\ IF gets[1].nv = "throw"
                   THEN /\ watchers' = watchers
                        /\ Len(EventsKind(log', "error")) = 1
                   ELSE /\ gets[1].nv = Get(raw, op'.prop)
                        /\ watchers' = Append(watchers,
                              [getter   |-> op'.prop,
                               oldValue |-> gets[1].nv,
                               id       |-> op'.idx])
       /\ op'.name = "beforeUpdate" =>
            \A j \in DOMAIN log' :
               log'[j].ev \in {"wget", "watch"} =>
                  /\ log'[j].i \in DOMAIN watchers
                  /\ watchers[log'[j].i].id \notin FailedWatches]_vars

\* C18 witness: after a registration whose getter raised and one whose getter
\* returned, a pass invoked one getter and one callback only.
C18_Witness ==
    /\ op.name = "beforeUpdate"
    /\ FailedWatches # {}
    /\ Len(watchers) = 1
    /\ Len(EventsKind(log, "wget")) = 1
    /\ Len(EventsKind(log, "watch")) = 1

\* The trace reports an error of that kind for entry i.
Reported(trace, i, what) ==
    \E j \in DOMAIN trace : trace[j] = Ev("error", i, 0, what, "")

\* C19: a pass in which a watcher's getter raises returns normally; it does
\* not invoke that watcher's callback and leaves its entry, previous value
\* included, as it was; and it still invokes the getter of every other
\* watcher and the dependency getter of every effect.
C19_WatchGetterErrorContained ==
    [][op'.name = "beforeUpdate" =>
          /\ ~raised'
          /\ DOMAIN watchers' = DOMAIN watchers
          /\ \A i \in DOMAIN watchers :
                LET gets == EventsOf(log', "wget", i)
                IN  /\ Len(gets) = 1
                    /\ gets[1].nv = "throw" =>
                          /\ EventsOf(log', "watch", i) = << >>
                          /\ watchers'[i] = watchers[i]
                          /\ Reported(log', i, "watch getter")
          /\ \A e \in DOMAIN effectData :
                effectData[e].depsGetter # "none"
                   => Len(EventsOf(log', "deps", e)) = 1]_vars

\* C19 witness: the first watcher's getter raised while the property it reads
\* differed from its previous value; the second watcher's callback and the
\* effect still ran.
C19_Witness ==
    /\ op.name = "beforeUpdate"
    /\ Len(watchers) = 2
    /\ EventsOf(log, "wget", 1) = << Ev("wget", 1, watchers[1].id, "throw", "") >>
    /\ watchers[1].oldValue # Get(raw, watchers[1].getter)
    /\ Len(EventsOf(log, "watch", 2)) = 1
    /\ Len(EventsKind(log, "effect")) = 1

\* C20: a pass in which a watcher's callback raises returns normally; that
\* watcher's previous value is the value its getter just returned; and the
\* pass still invokes the getter of every watcher and the dependency getter
\* of every effect.
C20_WatchCallbackErrorContained ==
    [][op'.name = "beforeUpdate" =>
          /\ ~raised'
          /\ \A i \in DOMAIN watchers :
                /\ Len(EventsOf(log', "wget", i)) = 1
                /\ Reported(log', i, "watch callback") =>
                      /\ Len(EventsOf(log', "watch", i)) = 1
                      /\ watchers'[i].oldValue = Get(raw, watchers[i].getter)
                      /\ watchers'[i].oldValue = EventsOf(log', "wget", i)[1].nv
          /\ \A e \in DOMAIN effectData :
                effectData[e].depsGetter # "none"
                   => Len(EventsOf(log', "deps", e)) = 1]_vars

\* C20 witness: the first watcher's callback raised on the change from 0 to
\* 1 and its previous value is now 1; the second watcher's callback and the
\* effect still ran.
C20_Witness ==
    /\ op.name = "beforeUpdate"
    /\ Len(watchers) = 2
    /\ Reported(log, 1, "watch callback")
    /\ EventsOf(log, "watch", 1) = << Ev("watch", 1, 0, "1", "0") >>
    /\ watchers[1].oldValue = "1"
    /\ Len(EventsOf(log, "watch", 2)) = 1
    /\ Len(EventsKind(log, "effect")) = 1

\* C21: a watcher's previous value is stored before its callback is invoked.
\* Within one write and the passes nested in it, the first invocation of a
\* watcher's callback receives the previous value stored before the write,
\* and every later invocation receives as oldValue the newValue of the
\* invocation before it, never the stale previous value again; at the end
\* the stored previous value is the newValue of the last invocation.
C21_PreviousValueStoredFirst ==
    [][(op'.name = "syncSet" /\ ~tooDeep') =>
          \A i \in DOMAIN watchers :
             LET evs == EventsOf(log', "watch", i)
             IN  evs # << >> =>
                    /\ evs[1].ov = watchers[i].oldValue
                    /\ \A k \in 2..Len(evs) : evs[k].ov = evs[k - 1].nv
                    /\ watchers'[i].oldValue = evs[Len(evs)].nv]_vars

\* C21 witness: the callback invoked with (1, 0) wrote NaN to the watched
\* property, and the nested pass invoked it with (NaN, 1).
C21_Witness ==
    /\ op.name = "syncSet"
    /\ ~tooDeep
    /\ \E i \in DOMAIN watchers :
          EventsOf(log, "watch", i) = << Ev("watch", i, 0, "1", "0"),
                                         Ev("watch", i, 0, "NaN", "1") >>

\* C22: identity stability.  Every proxy handed out for one raw object, by
\* createReactive (whichever instance calls, however often) or by a read of
\* a nested property (whichever parent property is read, however often), is
\* the same proxy.
C22_IdentityStability ==
    \A r1 \in handed, r2 \in handed : r1.obj = r2.obj => r1.px = r2.px

\* C22 witness: createReactive is called on a raw object that was already
\* wrapped, after reads of two different parent properties that reference
\* it, and all three return one proxy.
C22_Witness ==
    /\ ret.name = "wrap"
    /\ ret.flag
    /\ \E r1 \in handed, r2 \in handed :
          /\ r1.how = "get" /\ r1.key = "x"
          /\ r2.how = "get" /\ r2.key = "y"
          /\ r1.obj = ret.arg.obj /\ r2.obj = ret.arg.obj
          /\ r1.px = ret.out.px /\ r2.px = ret.out.px
    /\ \E r \in handed :
          r.how = "wrap" /\ r.c = ret.c /\ r.obj = ret.arg.obj
             /\ r.px = ret.out.px

\* C23: reactive state is scoped to the instance that created it.  The
\* proxy createReactive returns to an instance is recorded in that
\* instance's states, and a changing write through it calls that instance's
\* update() once.
C23_StateScopedToInstance ==
    [][/\ ret'.name = "wrap" =>
             \E n \in DOMAIN statesOf'[ret'.c] :
                statesOf'[ret'.c][n] = ret'.out.px
       /\ ret'.name = "set" =>
             updatesOf'[ret'.c] = updatesOf[ret'.c] + 1]_vars

C25_OriginalHooksPreserved ==
    [][/\ op'.name = "mounted" =>
            Len(EventsKind(log', "hook")) = 1 /\ EndsWithHook(log', "onMounted")
       /\ op'.name = "beforeUpdate" =>
            /\ Len(EventsKind(log', "hook")) = 1
            /\ EndsWithHook(log', "onBeforeUpdate")
       /\ op'.name = "beforeUnmount" =>
            /\ Len(EventsKind(log', "hook")) = 1
            /\ EndsWithHook(log', "onBeforeUnmount")
       /\ op'.name = "unmounted" =>
            /\ Len(EventsKind(log', "hook")) = 1
            /\ EndsWithHook(log', "onUnmounted")]_vars

\* C26: every createEffect call appends exactly one entry to the cleanup
\* list, so until post-unmount the list has one entry per registered effect,
\* in registration order; and an entry that runs at pre-unmount invokes the
\* cleanup its effect holds at that time (the one returned by the effect's
\* latest invocation that returned a function), or nothing if it holds none.
C26_CleanupEntryReadsCurrent ==
    /\ phase # "unmounted" =>
          /\ Len(cleanups) = Len(effectData)
          /\ \A k \in DOMAIN cleanups : cleanups[k] = k
    /\ op.name = "beforeUnmount" =>
          \A k \in DOMAIN cleanups :
             LET e == cleanups[k]
                 n == effectData[e].cleanup
             IN  /\ Len(EventsOf(log, "entry", k)) = 1
                 /\ n # 0 => EventsOf(log, "cleanup", e)
                                = << Ev("cleanup", e, n, "", "") >>
                 /\ n = 0 => EventsOf(log, "cleanup", e) = << >>

\* C26 witness: at pre-unmount an entry invoked the cleanup returned by its
\* effect's second invocation, while another effect's entry, whose effect
\* never returned a function, invoked nothing.
C26_Witness ==
    /\ op.name = "beforeUnmount"
    /\ \E k \in DOMAIN cleanups :
          /\ effectData[cleanups[k]].cleanup = 2
          /\ EventsOf(log, "cleanup", cleanups[k])
                = << Ev("cleanup", cleanups[k], 2, "", "") >>
    /\ \E k \in DOMAIN cleanups :
          /\ effectData[cleanups[k]].cleanup = 0
          /\ Len(EventsOf(log, "entry", k)) = 1

C28_IsReactiveIffProxy ==
    ret.name = "isReactive" => (ret.flag <=> ret.arg.kind = "proxy")

\* C29: an effect registered through useMount is invoked by firings of the
\* mount hook only (once by a single firing after its registration); no
\* pre-update pass invokes it, whatever the reactive state has become.
C29_UseMountRunsAtMountOnly ==
    [][\A e \in DOMAIN effectData' :
          (effectData'[e].depsGetter = "empty" /\ effectData'[e].effect = "user")
             => /\ effectRuns'[e] = mountCount' - regMount'[e]
                /\ op'.name = "beforeUpdate" =>
                      EventsOf(log', "effect", e) = << >>]_vars

\* C29 witness: after the mount and a changing write, a pass invoked another
\* effect for the second time, and the useMount effect has still run once.
C29_Witness ==
    /\ op.name = "beforeUpdate"
    /\ updateCalls >= 1
    /\ \E e \in DOMAIN effectData :
          /\ effectData[e].depsGetter = "empty"
          /\ effectData[e].effect = "user"
          /\ effectRuns[e] = 1
    /\ \E e \in DOMAIN effectData :
          Len(EventsOf(log, "effect", e)) = 1 /\ effectRuns[e] = 2

\* C30: the cleanup passed to useUnmount is not invoked at registration, at
\* mount or in a pre-update pass, and it is invoked exactly once when the
\* pre-unmount hook of an instance that has mounted fires.
C30_UseUnmountRunsAtUnmountOnly ==
    [][\A e \in DOMAIN effectData' :
          effectData'[e].effect = "returnsCleanup"
             => /\ op'.name \in {"createEffect", "mounted", "beforeUpdate"} =>
                      EventsOf(log', "cleanup", e) = << >>
                /\ (op'.name = "beforeUnmount" /\ mountCount >= 1) =>
                      Len(EventsOf(log', "cleanup", e)) = 1]_vars

\* C31: plugin installation is idempotent.  installComposables when already
\* installed calls riot's install() no further time and leaves the plugin
\* installed; uninstallComposables when not installed changes nothing;
\* isComposablesInstalled() changes nothing and answers true exactly when the
\* latest effective call was an install: every installComposables leaves the
\* flag true and every uninstallComposables leaves it false.
C31_InstallIdempotent ==
    [][/\ op'.name = "install" =>
            /\ isInstalled'
            /\ isInstalled =>
                  << installs', uninstalls', pluginRef' >>
                     = << installs, uninstalls, pluginRef >>
       /\ op'.name = "uninstall" =>
            /\ ~isInstalled'
            /\ ~isInstalled =>
                  << installs', uninstalls', pluginRef' >>
                     = << installs, uninstalls, pluginRef >>
       /\ op'.name = "isInstalled" =>
            /\ UNCHANGED << isInstalled, pluginRef, installs, uninstalls >>
            /\ op'.val = "true" <=> installs > uninstalls]_vars

\* C31 witness: installComposables was called on an installed plugin (it
\* warned) and riot's install() has still been called once.
C31_Witness ==
    /\ op.name = "install"
    /\ warnings = 1
    /\ installs = 1
    /\ uninstalls = 0
    /\ isInstalled

\* C40: the installed flag is true if and only if the stored plugin
\* reference is non-null, and the calls of riot's install() exceed the calls
\* of uninstall() by one when installed and by none when not.
C40_FlagMatchesReference ==
    /\ isInstalled <=> pluginRef # "null"
    /\ installs - uninstalls = IF isInstalled THEN 1 ELSE 0

\* C40 witness: after an install, an uninstall and a second install.
C40_Witness ==
    /\ installs = 2
    /\ uninstalls = 1
    /\ isInstalled
    /\ pluginRef = "composablesPlugin"

\* C32: createComputedObject adds exactly one computed cell per key, as one
\* createComputed call per entry would: the object returned has the keys of
\* the object given, each bound to a cell of its own that holds the entry's
\* getter, is dirty and has no cache, and the cells that existed are left
\* alone.  The cells are cached independently: a read of one accessor leaves
\* every other cell as it was and invokes no other entry's getter, a read of
\* a clean cell invokes no getter, and a pass that dirties the cells invokes
\* none.
C32_ComputedObjectPerEntry ==
    [][/\ op'.name = "createComputedObject" =>
            /\ Len(computed') = Len(computed) + Len(op'.prop)
            /\ Len(op'.val) = Len(op'.prop)
            /\ \A i \in DOMAIN op'.prop :
                  /\ op'.val[i].key = op'.prop[i].key
                  /\ op'.val[i].cell = Len(computed) + i
                  /\ computed'[Len(computed) + i]
                        = [getter |-> op'.prop[i].getter,
                           cache |-> "undefined", dirty |-> TRUE]
            /\ \A j \in DOMAIN computed : computed'[j] = computed[j]
       /\ op'.name = "read" =>
            /\ \A j \in DOMAIN computed :
                  j # op'.idx =>
                     /\ computed'[j] = computed[j]
                     /\ EventsOf(log', "getter", j) = << >>
            /\ ~computed[op'.idx].dirty =>
                  EventsOf(log', "getter", op'.idx) = << >>
       /\ op'.name = "beforeUpdate" => EventsKind(log', "getter") = << >>]_vars

\* C32 witness: of two cells made by one createComputedObject call, the
\* first was read, dirtied by a pass after a write and read again (its
\* getter ran in this read), while the second was never evaluated.
C32_Witness ==
    /\ op.name = "read"
    /\ op.idx = 1
    /\ updateCalls = 1
    /\ Len(computed) = 2
    /\ Len(EventsOf(log, "getter", 1)) = 1
    /\ epoch[1].src = "pass"
    /\ ~computed[1].dirty
    /\ computed[2].dirty
    /\ computed[2].cache = "undefined"

\* C33: createWatchMultiple registers each pair independently and in input
\* order.  It calls the seeding getter of every pair once, in order, and
\* returns normally; the watchers collection gains, after the entries it had,
\* one entry per pair whose getter returned, in the order given and seeded
\* with the value the getter returned; a pair whose getter raised adds none
\* and stops nothing.
C33_WatchMultipleIndependent ==
    [][op'.name = "createWatchMultiple" =>
          LET pairs == op'.prop
              Ok(x) == ~x.throws
              ok == SelectSeq(pairs, Ok)
              gets == EventsKind(log', "wget")
          IN  /\ ~raised'
              /\ Len(gets) = Len(pairs)
              /\ \A k \in DOMAIN pairs :
                    /\ gets[k].i = Len(watchCalls) + k
                    /\ gets[k].nv = "throw" <=> pairs[k].throws
              /\ Len(watchers') = Len(watchers) + Len(ok)
              /\ \A j \in DOMAIN watchers : watchers'[j] = watchers[j]
              /\ \A i \in DOMAIN ok :
                    /\ watchers'[Len(watchers) + i].getter = ok[i].getter
                    /\ watchers'[Len(watchers) + i].oldValue
                          = Get(raw, ok[i].getter)]_vars

\* C33 witness: of two pairs the first's getter raised, and the second was
\* registered as the only watcher.
C33_Witness ==
    /\ op.name = "createWatchMultiple"
    /\ Len(op.prop) = 2
    /\ op.prop[1].throws
    /\ ~op.prop[2].throws
    /\ Len(watchers) = 1
    /\ watchers[1].getter = op.prop[2].getter
    /\ watchers[1].id = 2

\* C34: an error raised by an effect's dependency getter is recovered
\* locally.  createEffect returns normally; a pre-update pass returns
\* normally, has called the dependency getter of every effect that has one,
\* and ends with the host's original pre-update hook.
C34_DepsGetterErrorContained ==
    [][/\ op'.name = "createEffect" => ~raised'
       /\ op'.name = "beforeUpdate" =>
            /\ ~raised'
            /\ \A e \in DOMAIN effectData :
                  effectData[e].depsGetter # "none"
                     => Len(EventsOf(log', "deps", e)) = 1
            /\ EndsWithHook(log', "onBeforeUpdate")]_vars

\* C35: when the mount hook fires again or a pre-update pass runs, every
\* invocation of an effect after its first comes directly after one call of
\* the cleanup the effect had stored; when that cleanup raises, the error is
\* reported between the two and the body is invoked all the same, so every
\* cleanup called is followed by the body and no error is left pending.
C35_CleanupThenBody ==
    [][op'.name \in {"mounted", "beforeUpdate"} =>
         /\ ~raised'
         /\ \A i \in DOMAIN log' :
               log'[i].ev = "cleanup" =>
                  \E j \in DOMAIN log' :
                     j > i /\ log'[j].ev = "effect" /\ log'[j].i = log'[i].i
         /\ \A j \in DOMAIN log' :
               (log'[j].ev = "effect" /\ log'[j].n >= 2) =>
                  LET e == log'[j].i
                      c == effectData[e].cleanup
                  IN  c # 0 =>
                        /\ Len(EventsOf(log', "cleanup", e)) = 1
                        /\ IF effectData[e].raises
                           THEN /\ j >= 3
                                /\ log'[j - 2] = Ev("cleanup", e, c, "", "")
                                /\ log'[j - 1] =
                                      Ev("error", e, 0, "effect cleanup", "")
                           ELSE /\ j >= 2
                                /\ log'[j - 1] = Ev("cleanup", e, c, "", "")]_vars

\* The mount hook has fired a second time; the cleanup stored by an effect's
\* first invocation raised, was reported, and the second invocation followed.
C35_Witness ==
    /\ op.name = "mounted"
    /\ mountCount = 2
    /\ \E j \in DOMAIN log :
          /\ j >= 3
          /\ log[j].ev = "effect" /\ log[j].n = 2
          /\ log[j - 2] = Ev("cleanup", log[j].i, 1, "", "")
          /\ log[j - 1] = Ev("error", log[j].i, 0, "effect cleanup", "")

\* C36: an effect's stored snapshot is the one taken at registration until
\* a pre-update pass finds the current dependencies different from it and
\* stores them; no other operation, the mount hook included, changes it.  A
\* pass invokes an effect that has a dependency getter exactly when the
\* current dependencies differ from the stored snapshot.
C36_SnapshotChangesOnlyInPass ==
    [][/\ op'.name = "createEffect" =>
            \A e \in DOMAIN effectData' \ DOMAIN effectData :
               effectData'[e].depsGetter # "none" =>
                  effectData'[e].deps = EvalDeps(effectData'[e].depsGetter, raw)
       /\ \A e \in DOMAIN effectData :
             LET d == effectData[e]
                 cur == EvalDeps(d.depsGetter, raw)
                 changed == ~SameSnapshot(d.deps, cur)
                 invoked == EventsOf(log', "effect", e) # << >>
             IN  /\ op'.name # "beforeUpdate" => effectData'[e].deps = d.deps
                 /\ (op'.name = "beforeUpdate" /\ d.depsGetter # "none") =>
                       /\ invoked <=> changed
                       /\ effectData'[e].deps =
                             IF changed THEN cur ELSE d.deps]_vars

\* A pass has invoked, for the second time, an effect that the mount hook
\* had invoked before.
C36_Witness ==
    /\ op.name = "beforeUpdate"
    /\ mountCount >= 1
    /\ \E e \in DOMAIN effectData :
          /\ effectData[e].depsGetter = "a"
          /\ effectRuns[e] = 2
          /\ EventsOf(log, "effect", e) # << >>
          /\ SameSnapshot(effectData[e].deps, EvalDeps("a", raw))

\* The places of the events of one kind and one entry in a trace.
PlacesOf(trace, kind, i) ==
    {k \in DOMAIN trace : trace[k].ev = kind /\ trace[k].i = i}

\* C37: within one external write and the passes nested in it, an effect is
\* invoked a second time only after a write that changed the property its
\* dependency getter reads: a write of the effect's own body to another
\* property starts a nested pass that checks the effect and does not invoke
\* it.
C37_NoReentryWithoutDepChange ==
    [][(op'.name = "syncSet" /\ ~tooDeep') =>
          \A e \in DOMAIN effectData :
             \A j \in PlacesOf(log', "effect", e) :
                \A k \in PlacesOf(log', "effect", e) :
                   j < k =>
                      \E m \in (j + 1)..(k - 1) :
                         /\ log'[m].ev = "set"
                         /\ log'[m].ov = effectData[e].depsGetter]_vars

\* The effect's body wrote b, the nested pass called the effect's dependency
\* getter, and the effect was invoked once in all.
C37_Witness ==
    /\ op.name = "syncSet"
    /\ ~tooDeep
    /\ \E e \in DOMAIN effectData :
          /\ Cardinality(PlacesOf(log, "effect", e)) = 1
          /\ \E j \in PlacesOf(log, "effect", e) :
                /\ j < Len(log)
                /\ log[j + 1] = Ev("set", 0, 0, "1", "b")
                /\ \E m \in PlacesOf(log, "deps", e) : m > j + 1

\* C38: over a host whose update() runs the pre-update hook, when the only
\* writes that follow an external write are those of one watcher's callback,
\* which writes a constant to the property the watcher watches, the chain of
\* nested passes ends and the callback is invoked at most twice.
C38_ConstantWriteTerminates ==
    [][op'.name = "syncSet" =>
          \A i \in DOMAIN watchers :
             (\A k \in DOMAIN log' :
                 (k > 1 /\ log'[k].ev = "set") =>
                    /\ log'[k - 1].ev = "watch"
                    /\ log'[k - 1].i = i
                    /\ log'[k].ov = watchers[i].getter)
             => /\ ~tooDeep'
                /\ Len(EventsOf(log', "watch", i)) <= 2]_vars

\* The callback was invoked for the external write, wrote its constant to
\* the watched property, was invoked again by the nested pass, and the chain
\* ended there.
C38_Witness ==
    /\ op.name = "syncSet"
    /\ ~tooDeep
    /\ \E i \in DOMAIN watchers :
          /\ Len(EventsOf(log, "watch", i)) = 2
          /\ Cardinality(PlacesOf(log, "set", 0)) = 2
          /\ \E k \in PlacesOf(log, "set", 0) :
                /\ k > 1
                /\ log[k - 1].ev = "watch" /\ log[k - 1].i = i
                /\ log[k].ov = watchers[i].getter
                /\ log[k].nv = "NaN"

\* Every watcher's getter returns the stored previous value and every
\* dependency getter returns a snapshot equal to the stored one.
NothingChanged ==
    /\ \A i \in DOMAIN watchers :
          ObjectIs(Get(raw, watchers[i].getter), watchers[i].oldValue)
    /\ \A e \in DOMAIN effectData :
          effectData[e].depsGetter # "none" =>
             SameSnapshot(effectData[e].deps,
                          EvalDeps(effectData[e].depsGetter, raw))

\* C39: a pre-update pass that finds nothing changed invokes no watcher
\* callback, no effect body and no cleanup, and leaves the watchers, the
\* effects with their snapshots and cleanups, the cleanup list, the states
\* collection and the raw state as they were; of the computed cells only
\* the dirty flags change, all to true.
C39_IdlePassChangesOnlyDirtyFlags ==
    [][(op'.name = "beforeUpdate" /\ NothingChanged) =>
          /\ \A j \in DOMAIN log' :
                log'[j].ev \notin {"watch", "effect", "cleanup", "entry"}
          /\ watchers' = watchers
          /\ effectData' = effectData
          /\ effects' = effects
          /\ cleanups' = cleanups
          /\ states' = states
          /\ raw' = raw
          /\ effectRuns' = effectRuns
          /\ cleanupRuns' = cleanupRuns
          /\ entryRuns' = entryRuns
          /\ computed' = [i \in DOMAIN computed |->
                             [computed[i] EXCEPT !.dirty = TRUE]]]_vars

\* An idle pass has run over a cached computed cell, a watcher and an effect
\* that holds a cleanup and a snapshot: the cell is dirty again, its cache
\* is kept, and nothing was invoked.
C39_Witness ==
    /\ op.name = "beforeUpdate"
    /\ NothingChanged
    /\ \A j \in DOMAIN log : log[j].ev \notin {"watch", "effect", "cleanup"}
    /\ \E j \in DOMAIN log : log[j].ev = "dirty"
    /\ \E i \in DOMAIN computed :
          computed[i].dirty /\ computed[i].cache # "undefined"
    /\ watchers # << >>
    /\ \E e \in DOMAIN effectData :
          /\ effectData[e].depsGetter = "a"
          /\ effectData[e].cleanup # 0
          /\ cleanupRuns[e][effectData[e].cleanup] = 0

====
